---- MODULE Spec2Model ----
(***************************************************************************)
(* Model of the reverse-proxy manager of akibrhast/synology-config         *)
(* (src/app/modules/reverse_proxy.py) together with the service inventory  *)
(* it is reconciled against (src/app/modules/inventory.py) and the proxy   *)
(* rule store it talks to.                                                 *)
(*                                                                         *)
(* Python values are modelled as follows.                                  *)
(*   None port / absent port  : NoPort (0); Python treats both None and 0  *)
(*                              as falsy in `if port:`                     *)
(*   rules_cache              : <<>> for None, <<rules>> for a list        *)
(*   dict `services`          : a sequence of entries with distinct keys   *)
(*                              (insertion order is iteration order)       *)
(*   error_message            : "None" for None                            *)
(*   strings read by character: sequences of one-character strings, so     *)
(*                              that lstrip, lower and `in` are computed   *)
(*                              (container names, service labels, images   *)
(*                              of the scanned containers)                 *)
(***************************************************************************)
EXTENDS Integers, Sequences, FiniteSets, TLC

\* ---------------------------------------------------------------- bounds
MaxPort == 2
MaxRules == 2
MaxHeld == 3
MaxMappings == 3

\* ------------------------------------------------------------- constants
NoPort == 0
DefaultFrontendPort == 443
DomainRejectedCode == 4154
BadParameterCode == 101

ContainerNames == {"bazarr", "postgres"}
Stacks == {"standalone"}
DomainSuffix == ".akibrhast.synology.me"
Domains == {n \o DomainSuffix : n \in ContainerNames}
ListedDomains == Domains \cup {"plex" \o DomainSuffix}
Descriptions == {"app"}
BackendHosts == {"notmyproblemnas"}
FrontendPorts == {DefaultFrontendPort, 8443}
BackendPorts == 0..MaxPort
ServicePorts == 0..MaxPort
HstsInputs == {TRUE}
WebsocketInputs == {FALSE}
RuleIds == 1..MaxRules

\* authenticated, error_message, rules_cache : the manager's fields
\* store    : the rules the proxy-rule store holds, in listing order
\* services : the inventory's service dict
\* last     : the last operation as its caller saw it: its name, its
\*            arguments (for list_rules also whether it directly follows a
\*            successful create or delete), its return value and the
\*            calls it made to the store with their responses
\* inventory: the inventory object apart from its service dict: its client's
\*            authenticated flag and error_message, and its endpoints,
\*            stacks and containers lists
VARIABLES authenticated, error_message, rules_cache, store, services, last, inventory

vars == <<authenticated, error_message, rules_cache, store, services, last, inventory>>

\* ------------------------------------------------------- Python helpers
\* Truthiness of a port value: `if port:` is false for None and for 0.
PortTruthy(port) == port # NoPort

\* rules_cache is <<>> (None) or <<rules>>.
None == <<>>
Some(rules) == <<rules>>
IsNone(c) == Len(c) = 0

\* dict assignment d[k] = v on a function.
DictPut(d, k, v) == [x \in (DOMAIN d) \cup {k} |-> IF x = k THEN v ELSE d[x]]

\* ------------------------------------------------ the proxy-rule store
\* Responses of the store to one call: success, an error code, or no
\* usable response at all (connection error, timeout, malformed JSON).
OkResp == [kind |-> "ok", code |-> 0]
ExcResp == [kind |-> "exc", code |-> 0]
ErrResp(c) == [kind |-> "error", code |-> c]
\* A create or delete the store has carried out and whose answer did not
\* reach the caller (the read timed out, the connection broke, the body
\* was cut): session.post or response.json() raises in the caller.
LostResp == [kind |-> "lost", code |-> 0]
UnclassifiedCodes == {119}
ErrorCodes == {DomainRejectedCode, BadParameterCode} \cup UnclassifiedCodes
ListResponses == {OkResp, ExcResp} \cup {ErrResp(c) : c \in UnclassifiedCodes}
MutationResponses == {OkResp, ExcResp} \cup {ErrResp(c) : c \in ErrorCodes}
DeleteResponses == {OkResp, ExcResp} \cup {ErrResp(c) : c \in UnclassifiedCodes}

\* The call raised in the caller.
Raised(resp) == resp.kind \in {"exc", "lost"}

\* The store has carried out the call.
Applied(resp) == resp.kind \in {"ok", "lost"}

\* The identifier the store gives a new rule: the least one not in use.
FreshId(st) ==
    CHOOSE i \in 1..(Len(st) + 1) :
        /\ \A k \in 1..Len(st) : st[k].id # i
        /\ \A j \in 1..(i - 1) : \E k \in 1..Len(st) : st[k].id = j

\* Some rule of st has this frontend (domain, port) pair.
StoreHasPair(st, domain, port) ==
    \E k \in 1..Len(st) : st[k].frontend.fqdn = domain /\ st[k].frontend.port = port

\* The responses the store can give to create(entry): it accepts only a
\* pair no rule has yet, and only while it holds fewer than MaxRules rules.
StoreCreateResponses(st, entry) ==
    IF StoreHasPair(st, entry.frontend.fqdn, entry.frontend.port)
    THEN {ErrResp(DomainRejectedCode), ExcResp}
    ELSE IF Len(st) >= MaxRules
    THEN MutationResponses \ {OkResp}
    ELSE MutationResponses \cup {LostResp}

\* The record the store lists for an accepted entry.
StoredRule(id, entry) ==
    [id |-> id,
     description |-> entry.description,
     frontend |-> entry.frontend,
     backend |-> entry.backend,
     customize_headers |-> entry.customize_headers]

StoreCreate(st, entry) == Append(st, StoredRule(FreshId(st), entry))

StoreDelete(st, ids) == SelectSeq(st, LAMBDA r : r.id \notin ids)

\* The store after a create or a delete with this response.
AfterCreate(st, entry, resp) == IF Applied(resp) THEN StoreCreate(st, entry) ELSE st

AfterDelete(st, ids, resp) == IF Applied(resp) THEN StoreDelete(st, ids) ELSE st

\* ---------------------------------------------------------- list_rules
\* The result of list_rules(refresh) as a record: the returned sequence,
\* the new cache, the new error message and the calls made to the store.
list_rules(auth, cache, err, st, refresh, resp) ==
    IF ~auth
    THEN [ret |-> <<>>, cache |-> cache, err |-> err, calls |-> <<>>]
    ELSE IF (~IsNone(cache) /\ Len(cache[1]) > 0) /\ ~refresh
    THEN [ret |-> cache[1], cache |-> cache, err |-> err, calls |-> <<>>]
    ELSE IF resp.kind = "exc"
    THEN [ret |-> <<>>, cache |-> cache, err |-> "Error listing rules",
          calls |-> <<[method |-> "list", resp |-> resp]>>]
    ELSE IF resp.kind # "ok"
    THEN [ret |-> <<>>, cache |-> cache, err |-> "Failed to list rules",
          calls |-> <<[method |-> "list", resp |-> resp]>>]
    ELSE [ret |-> st, cache |-> Some(st), err |-> err,
          calls |-> <<[method |-> "list", resp |-> resp]>>]

EmptyReport == [missing_proxies |-> <<>>, orphaned_proxies |-> <<>>, in_sync |-> <<>>]

NoArgs == [none |-> TRUE]

MutationOps == {"add_rule", "delete_rule", "delete_rules_bulk"}
DeleteOps == {"delete_rule", "delete_rules_bulk"}

ListRules(refresh, resp) ==
    /\ \E r \in {list_rules(authenticated, rules_cache, error_message, store, refresh, resp)} :
          /\ rules_cache' = r.cache
          /\ error_message' = r.err
          /\ last' = [op |-> "list_rules",
                      args |-> [refresh |-> refresh,
                                after_mutation |-> last.op \in MutationOps /\ last.ok],
                      ok |-> TRUE, msg |-> "", rules |-> r.ret,
                      report |-> EmptyReport, calls |-> r.calls]
    /\ UNCHANGED <<authenticated, store, services, inventory>>

\* ------------------------------------------------------------- add_rule
\* The entry add_rule builds and submits.
RuleEntry(description, frontend_domain, backend_host, backend_port, frontend_port, hsts, websocket) ==
    [description |-> description,
     frontend |-> [fqdn |-> frontend_domain, port |-> frontend_port, hsts |-> hsts],
     backend |-> [fqdn |-> backend_host, port |-> backend_port],
     customize_headers |-> IF websocket THEN <<"Upgrade", "Connection">> ELSE <<>>]

\* The failure reason as the raw error code, whatever the code.
AddRuleErrorMessage_Raw(error_code) == "Error code: " \o ToString(error_code)

\* The failure reason add_rule gives for an error code of the store.
AddRuleErrorMessage(error_code) ==
    IF error_code = DomainRejectedCode
    THEN "Domain may already exist, be invalid, or not under your Synology account"
    ELSE IF error_code = BadParameterCode
    THEN "Invalid parameter format"
    ELSE "Error code: " \o ToString(error_code)

\* add_rule that clears the cache whenever it has called the store.
add_rule_ClearAlways(auth, cache, st, entry, resp) ==
    IF ~auth
    THEN [ok |-> FALSE, msg |-> "Not authenticated", cache |-> cache,
          store |-> st, calls |-> <<>>]
    ELSE IF resp.kind = "ok"
    THEN [ok |-> TRUE, msg |-> "Rule added successfully", cache |-> None,
          store |-> StoreCreate(st, entry),
          calls |-> <<[method |-> "create", resp |-> resp]>>]
    ELSE [ok |-> FALSE,
          msg |-> IF Raised(resp) THEN "Exception" ELSE AddRuleErrorMessage(resp.code),
          cache |-> None, store |-> AfterCreate(st, entry, resp),
          calls |-> <<[method |-> "create", resp |-> resp]>>]

\* add_rule that forgets to invalidate the cache after a successful create.
add_rule_KeepCache(auth, cache, st, entry, resp) ==
    IF ~auth
    THEN [ok |-> FALSE, msg |-> "Not authenticated", cache |-> cache,
          store |-> st, calls |-> <<>>]
    ELSE IF Raised(resp)
    THEN [ok |-> FALSE, msg |-> "Exception", cache |-> cache,
          store |-> AfterCreate(st, entry, resp),
          calls |-> <<[method |-> "create", resp |-> resp]>>]
    ELSE IF resp.kind = "ok"
    THEN [ok |-> TRUE, msg |-> "Rule added successfully", cache |-> cache,
          store |-> StoreCreate(st, entry),
          calls |-> <<[method |-> "create", resp |-> resp]>>]
    ELSE [ok |-> FALSE, msg |-> AddRuleErrorMessage(resp.code), cache |-> cache,
          store |-> AfterCreate(st, entry, resp),
          calls |-> <<[method |-> "create", resp |-> resp]>>]

\* The result of add_rule as a record: (success, message), the new cache,
\* the new store and the calls made to the store.
add_rule(auth, cache, st, entry, resp) ==
    IF ~auth
    THEN [ok |-> FALSE, msg |-> "Not authenticated", cache |-> cache,
          store |-> st, calls |-> <<>>]
    ELSE IF Raised(resp)
    THEN [ok |-> FALSE, msg |-> "Exception", cache |-> cache,
          store |-> AfterCreate(st, entry, resp),
          calls |-> <<[method |-> "create", resp |-> resp]>>]
    ELSE IF resp.kind = "ok"
    THEN [ok |-> TRUE, msg |-> "Rule added successfully", cache |-> None,
          store |-> StoreCreate(st, entry),
          calls |-> <<[method |-> "create", resp |-> resp]>>]
    ELSE [ok |-> FALSE, msg |-> AddRuleErrorMessage(resp.code), cache |-> cache,
          store |-> AfterCreate(st, entry, resp),
          calls |-> <<[method |-> "create", resp |-> resp]>>]

AddRule(entry, resp) ==
    /\ resp \in StoreCreateResponses(store, entry)
    /\ \E r \in {add_rule(authenticated, rules_cache, store, entry, resp)} :
          /\ rules_cache' = r.cache
          /\ store' = r.store
          /\ last' = [op |-> "add_rule", args |-> entry,
                      ok |-> r.ok, msg |-> r.msg, rules |-> <<>>,
                      report |-> EmptyReport, calls |-> r.calls]
    /\ UNCHANGED <<authenticated, error_message, services, inventory>>

\* The backend port submitted for a frontend domain: the port of the
\* service the domain is named after, as in the auto-create loop.
BackendPortFor(domain) == IF domain = "bazarr" \o DomainSuffix THEN 1 ELSE MaxPort

\* What the callers of add_rule submit.
RuleEntries ==
    {RuleEntry(d, fd, bh, BackendPortFor(fd), fp, h, w) :
        d \in Descriptions, fd \in Domains, bh \in BackendHosts,
        fp \in FrontendPorts, h \in HstsInputs, w \in WebsocketInputs}

\* What a listing of the store may hold: rules of any backend port, one
\* frontend port, and possibly no backend port at all.
ListedEntries ==
    {RuleEntry(d, fd, bh, bp, DefaultFrontendPort, h, w) :
        d \in Descriptions, fd \in ListedDomains, bh \in BackendHosts,
        bp \in BackendPorts, h \in HstsInputs, w \in WebsocketInputs}

\* ------------------------------------------- delete_rule, delete_rules_bulk
\* delete_rule that keeps the cache after a successful delete.
delete_rule_KeepCache(auth, cache, st, rule_id, resp) ==
    IF ~auth
    THEN [ok |-> FALSE, msg |-> "Not authenticated", cache |-> cache,
          store |-> st, calls |-> <<>>]
    ELSE IF resp.kind = "ok"
    THEN [ok |-> TRUE, msg |-> "Rule deleted successfully", cache |-> cache,
          store |-> StoreDelete(st, {rule_id}),
          calls |-> <<[method |-> "delete", resp |-> resp]>>]
    ELSE [ok |-> FALSE,
          msg |-> IF Raised(resp) THEN "Exception"
                  ELSE "Delete failed. Error code: " \o ToString(resp.code),
          cache |-> cache, store |-> AfterDelete(st, {rule_id}, resp),
          calls |-> <<[method |-> "delete", resp |-> resp]>>]

delete_rule(auth, cache, st, rule_id, resp) ==
    IF ~auth
    THEN [ok |-> FALSE, msg |-> "Not authenticated", cache |-> cache,
          store |-> st, calls |-> <<>>]
    ELSE IF Raised(resp)
    THEN [ok |-> FALSE, msg |-> "Exception", cache |-> cache,
          store |-> AfterDelete(st, {rule_id}, resp),
          calls |-> <<[method |-> "delete", resp |-> resp]>>]
    ELSE IF resp.kind = "ok"
    THEN [ok |-> TRUE, msg |-> "Rule deleted successfully", cache |-> None,
          store |-> StoreDelete(st, {rule_id}),
          calls |-> <<[method |-> "delete", resp |-> resp]>>]
    ELSE [ok |-> FALSE, msg |-> "Delete failed. Error code: " \o ToString(resp.code),
          cache |-> cache, store |-> AfterDelete(st, {rule_id}, resp),
          calls |-> <<[method |-> "delete", resp |-> resp]>>]

DeleteRule(rule_id, resp) ==
    /\ \E r \in {delete_rule(authenticated, rules_cache, store, rule_id, resp)} :
          /\ rules_cache' = r.cache
          /\ store' = r.store
          /\ last' = [op |-> "delete_rule", args |-> [rule_id |-> rule_id],
                      ok |-> r.ok, msg |-> r.msg, rules |-> <<>>,
                      report |-> EmptyReport, calls |-> r.calls]
    /\ UNCHANGED <<authenticated, error_message, services, inventory>>

\* The identifiers a list of identifiers names.
IdsOf(rule_uuids) == {rule_uuids[i] : i \in 1..Len(rule_uuids)}

\* The message of a successful bulk delete: count = len(rule_uuids).
BulkDeleteMessage(count) ==
    ToString(count) \o " rule" \o (IF count > 1 THEN "s" ELSE "") \o " deleted successfully"

\* The bulk delete checking the identifier list before the login.
delete_rules_bulk_EmptyFirst(auth, cache, st, rule_uuids, resp) ==
    IF rule_uuids = <<>>
    THEN [ok |-> FALSE, msg |-> "No rule UUIDs provided", cache |-> cache,
          store |-> st, calls |-> <<>>]
    ELSE IF ~auth
    THEN [ok |-> FALSE, msg |-> "Not authenticated", cache |-> cache,
          store |-> st, calls |-> <<>>]
    ELSE IF resp.kind = "ok"
    THEN [ok |-> TRUE, msg |-> BulkDeleteMessage(Len(rule_uuids)),
          cache |-> None, store |-> StoreDelete(st, IdsOf(rule_uuids)),
          calls |-> <<[method |-> "delete", resp |-> resp]>>]
    ELSE [ok |-> FALSE,
          msg |-> IF Raised(resp) THEN "Exception"
                  ELSE "Delete failed. Error code: " \o ToString(resp.code),
          cache |-> cache, store |-> AfterDelete(st, IdsOf(rule_uuids), resp),
          calls |-> <<[method |-> "delete", resp |-> resp]>>]

\* The bulk delete without its check of an empty identifier list.
delete_rules_bulk_NoEmptyCheck(auth, cache, st, rule_uuids, resp) ==
    IF ~auth
    THEN [ok |-> FALSE, msg |-> "Not authenticated", cache |-> cache,
          store |-> st, calls |-> <<>>]
    ELSE IF resp.kind = "ok"
    THEN [ok |-> TRUE, msg |-> BulkDeleteMessage(Len(rule_uuids)),
          cache |-> None, store |-> StoreDelete(st, IdsOf(rule_uuids)),
          calls |-> <<[method |-> "delete", resp |-> resp]>>]
    ELSE [ok |-> FALSE,
          msg |-> IF Raised(resp) THEN "Exception"
                  ELSE "Delete failed. Error code: " \o ToString(resp.code),
          cache |-> cache, store |-> AfterDelete(st, IdsOf(rule_uuids), resp),
          calls |-> <<[method |-> "delete", resp |-> resp]>>]

\* rule_uuids is the list of identifiers as the caller gives it: an
\* identifier may be listed more than once, and count is the list's length.
delete_rules_bulk(auth, cache, st, rule_uuids, resp) ==
    IF ~auth
    THEN [ok |-> FALSE, msg |-> "Not authenticated", cache |-> cache,
          store |-> st, calls |-> <<>>]
    ELSE IF rule_uuids = <<>>
    THEN [ok |-> FALSE, msg |-> "No rule UUIDs provided", cache |-> cache,
          store |-> st, calls |-> <<>>]
    ELSE IF Raised(resp)
    THEN [ok |-> FALSE, msg |-> "Exception", cache |-> cache,
          store |-> AfterDelete(st, IdsOf(rule_uuids), resp),
          calls |-> <<[method |-> "delete", resp |-> resp]>>]
    ELSE IF resp.kind = "ok"
    THEN LET count == Len(rule_uuids)
         IN [ok |-> TRUE, msg |-> BulkDeleteMessage(count),
             cache |-> None, store |-> StoreDelete(st, IdsOf(rule_uuids)),
             calls |-> <<[method |-> "delete", resp |-> resp]>>]
    ELSE [ok |-> FALSE, msg |-> "Delete failed. Error code: " \o ToString(resp.code),
          cache |-> cache, store |-> AfterDelete(st, IdsOf(rule_uuids), resp),
          calls |-> <<[method |-> "delete", resp |-> resp]>>]

\* The identifier lists the callers give: up to MaxRules identifiers,
\* repeated ones included, written in increasing order (the call does not
\* depend on the order: the store deletes the rules named, and count is
\* the list's length).
IdLists ==
    {l \in UNION {[1..n -> RuleIds] : n \in 0..MaxRules} :
        \A i \in 1..(Len(l) - 1) : l[i] <= l[i + 1]}

DeleteRulesBulk(rule_uuids, resp) ==
    /\ \E r \in {delete_rules_bulk(authenticated, rules_cache, store, rule_uuids, resp)} :
          /\ rules_cache' = r.cache
          /\ store' = r.store
          /\ last' = [op |-> "delete_rules_bulk", args |-> [rule_uuids |-> rule_uuids],
                      ok |-> r.ok, msg |-> r.msg, rules |-> <<>>,
                      report |-> EmptyReport, calls |-> r.calls]
    /\ UNCHANGED <<authenticated, error_message, services, inventory>>

\* ------------------------------------------------------------ inventory
ServiceEntries ==
    [container_name : ContainerNames, stack_dir : Stacks,
     port : ServicePorts, needs_proxy : BOOLEAN]

DistinctKeys(s) == \A i, j \in 1..Len(s) : i # j => s[i].container_name # s[j].container_name

Inventories ==
    {s \in UNION {[1..n -> ServiceEntries] : n \in 0..Cardinality(ContainerNames)} :
        DistinctKeys(s)}

\* The inventory of the end-to-end scenario: a service that needs a proxy
\* and an internal one, on different ports.
ScenarioInventories ==
    {<<[container_name |-> "bazarr", stack_dir |-> "standalone",
        port |-> 1, needs_proxy |-> TRUE],
       [container_name |-> "postgres", stack_dir |-> "standalone",
        port |-> MaxPort, needs_proxy |-> FALSE]>>}

\* ------------------------------------------------- generate_sync_report
\* The lookup loop keeping the first rule of a backend port instead of the last.
RECURSIVE BuildLookup_FirstWins(_, _, _)
BuildLookup_FirstWins(actual_rules, i, by_port) ==
    IF i > Len(actual_rules)
    THEN by_port
    ELSE LET rule == actual_rules[i]
             port == rule.backend.port
         IN BuildLookup_FirstWins(actual_rules, i + 1,
                IF PortTruthy(port) /\ port \notin DOMAIN by_port
                THEN DictPut(by_port, port, rule)
                ELSE by_port)

\* actual_by_port: the loop `for rule in actual_rules` from index i on.
RECURSIVE BuildLookup(_, _, _)
BuildLookup(actual_rules, i, by_port) ==
    IF i > Len(actual_rules)
    THEN by_port
    ELSE LET rule == actual_rules[i]
             port == rule.backend.port
         IN BuildLookup(actual_rules, i + 1,
                        IF PortTruthy(port) THEN DictPut(by_port, port, rule)
                        ELSE by_port)

\* The lookup holding, for each backend port, the first rule listed with it.
actual_by_port_FirstWins(actual_rules) == BuildLookup_FirstWins(actual_rules, 1, <<>>)

actual_by_port(actual_rules) == BuildLookup(actual_rules, 1, <<>>)

\* The service classification with `if` in place of `else`: a matched
\* service is also reported missing.
ClassifyService_BothLists(info, by_port, report) ==
    IF ~info.needs_proxy
    THEN report
    ELSE IF ~PortTruthy(info.port)
    THEN report
    ELSE LET m == [report EXCEPT !.missing_proxies =
                      Append(@, [service |-> info.container_name, port |-> info.port,
                                 stack |-> info.stack_dir])]
         IN IF info.port \notin DOMAIN by_port
            THEN m
            ELSE [m EXCEPT !.in_sync =
                     Append(@, [service |-> info.container_name, port |-> info.port,
                                domain |-> by_port[info.port].frontend.fqdn])]

\* The service classification without the needs_proxy test.
ClassifyService_NoNeedsCheck(info, by_port, report) ==
    IF ~PortTruthy(info.port)
    THEN report
    ELSE IF info.port \notin DOMAIN by_port
    THEN [report EXCEPT !.missing_proxies =
             Append(@, [service |-> info.container_name, port |-> info.port,
                        stack |-> info.stack_dir])]
    ELSE [report EXCEPT !.in_sync =
             Append(@, [service |-> info.container_name, port |-> info.port,
                        domain |-> by_port[info.port].frontend.fqdn])]

\* The service classification looking the rule up by its description
\* instead of its backend port.
ClassifyService_ByDescription(info, by_port, report) ==
    IF ~info.needs_proxy
    THEN report
    ELSE IF ~PortTruthy(info.port)
    THEN report
    ELSE IF \A p \in DOMAIN by_port : by_port[p].description # info.container_name
    THEN [report EXCEPT !.missing_proxies =
             Append(@, [service |-> info.container_name, port |-> info.port,
                        stack |-> info.stack_dir])]
    ELSE [report EXCEPT !.in_sync =
             Append(@, [service |-> info.container_name, port |-> info.port,
                        domain |-> by_port[info.port].frontend.fqdn])]

\* One iteration of `for service_name, info in inventory_services.items()`.
ClassifyService(info, by_port, report) ==
    IF ~info.needs_proxy
    THEN report
    ELSE IF ~PortTruthy(info.port)
    THEN report
    ELSE IF info.port \notin DOMAIN by_port
    THEN [report EXCEPT !.missing_proxies =
             Append(@, [service |-> info.container_name, port |-> info.port,
                        stack |-> info.stack_dir])]
    ELSE [report EXCEPT !.in_sync =
             Append(@, [service |-> info.container_name, port |-> info.port,
                        domain |-> by_port[info.port].frontend.fqdn])]

RECURSIVE ServiceLoop(_, _, _, _)
ServiceLoop(inventory_services, i, by_port, report) ==
    IF i > Len(inventory_services)
    THEN report
    ELSE ServiceLoop(inventory_services, i + 1, by_port,
                     ClassifyService(inventory_services[i], by_port, report))

known_ports(inventory_services) ==
    {inventory_services[i].port :
        i \in {k \in 1..Len(inventory_services) : PortTruthy(inventory_services[k].port)}}

\* One iteration of the second `for rule in actual_rules`.
ClassifyRule(rule, known, report) ==
    IF PortTruthy(rule.backend.port) /\ rule.backend.port \notin known
    THEN [report EXCEPT !.orphaned_proxies =
             Append(@, [description |-> rule.description,
                        domain |-> rule.frontend.fqdn,
                        port |-> rule.backend.port,
                        id |-> rule.id])]
    ELSE report

RECURSIVE OrphanLoop(_, _, _, _)
OrphanLoop(actual_rules, i, known, report) ==
    IF i > Len(actual_rules)
    THEN report
    ELSE OrphanLoop(actual_rules, i + 1, known,
                    ClassifyRule(actual_rules[i], known, report))

\* The report computed from the rules list_rules returned.
BuildReport(inventory_services, actual_rules) ==
    LET by_port == actual_by_port(actual_rules)
        r1 == ServiceLoop(inventory_services, 1, by_port, EmptyReport)
    IN OrphanLoop(actual_rules, 1, known_ports(inventory_services), r1)

\* The engine working on the cached rules followed by the listed ones.
generate_sync_report_Accumulate(auth, cache, err, st, inventory_services, resp) ==
    LET l == list_rules(auth, cache, err, st, TRUE, resp)
        actual_rules == (IF IsNone(cache) THEN <<>> ELSE cache[1]) \o l.ret
    IN [report |-> BuildReport(inventory_services, actual_rules),
        actual_rules |-> actual_rules, cache |-> l.cache, err |-> l.err,
        calls |-> l.calls]

generate_sync_report(auth, cache, err, st, inventory_services, resp) ==
    LET l == list_rules(auth, cache, err, st, TRUE, resp)
    IN [report |-> BuildReport(inventory_services, l.ret),
        actual_rules |-> l.ret, cache |-> l.cache, err |-> l.err,
        calls |-> l.calls]

GenerateSyncReport(resp) ==
    /\ \E r \in {generate_sync_report(authenticated, rules_cache, error_message,
                                        store, services, resp)} :
          /\ rules_cache' = r.cache
          /\ error_message' = r.err
          /\ last' = [op |-> "generate_sync_report",
                      args |-> [rerun |-> /\ last.op = "generate_sync_report"
                                          /\ last.calls = r.calls
                                          /\ r.calls # <<>>
                                          /\ r.calls[1].resp.kind = "ok",
                                after_delete |-> last.op \in DeleteOps /\ last.ok,
                                created |-> IF /\ last.op = "auto_create"
                                               /\ last.args.sent = Len(last.args.missing)
                                               /\ last.args.failed = 0
                                            THEN last.args.missing ELSE <<>>],
                      ok |-> TRUE, msg |-> "", rules |-> r.actual_rules,
                      report |-> r.report, calls |-> r.calls]
    /\ UNCHANGED <<authenticated, store, services, inventory>>

\* ------------------------------------- main.py: auto-create of sync_tab
\* The rule submitted for a missing entry, with the frontend port as its
\* backend port.
AutoCreateEntry_FrontendPort(item) ==
    RuleEntry(item.service, item.service \o DomainSuffix, "notmyproblemnas",
              DefaultFrontendPort, DefaultFrontendPort, TRUE, FALSE)

\* The arguments of the add_rule call made for one entry of
\* report['missing_proxies'].
AutoCreateEntry(item) ==
    RuleEntry(item.service, item.service \o DomainSuffix, "notmyproblemnas",
              item.port, DefaultFrontendPort, TRUE, FALSE)

\* The loop `for idx, item in enumerate(report['missing_proxies'])` from
\* index i up to index sent; resps[i] is the store's answer to the i-th
\* create, and valid tells whether the store can give these answers.
RECURSIVE AutoCreateLoop(_, _, _, _, _)
AutoCreateLoop(items, i, sent, resps, acc) ==
    IF i > sent
    THEN acc
    ELSE LET entry == AutoCreateEntry(items[i])
             r == add_rule(TRUE, acc.cache, acc.store, entry, resps[i])
         IN AutoCreateLoop(items, i + 1, sent, resps,
                [cache |-> r.cache, store |-> r.store,
                 created |-> acc.created + (IF r.ok THEN 1 ELSE 0),
                 failed |-> acc.failed + (IF r.ok THEN 0 ELSE 1),
                 calls |-> acc.calls \o r.calls,
                 valid |-> acc.valid /\ resps[i] \in StoreCreateResponses(acc.store, entry)])

\* A run of sync_tab with the auto-create button pressed: the report is
\* generated and one add_rule is made per missing entry. The loop calls
\* Streamlit between two creates (status_text.text, progress_bar.progress),
\* where the script runner may end the run, so the run makes the first
\* `sent` creates only, all of them when it is not interrupted. The rerun
\* that follows, or the run that replaced this one, is the next
\* GenerateSyncReport or AutoCreate.
AutoCreate(list_resp) ==
    /\ authenticated
    /\ \E g \in {generate_sync_report(authenticated, rules_cache, error_message,
                                       store, services, list_resp)} :
          /\ g.report.missing_proxies # <<>>
          /\ \E sent \in 0..Len(g.report.missing_proxies) :
             \E resps \in [1..sent -> MutationResponses] :
                \E r \in {AutoCreateLoop(g.report.missing_proxies, 1, sent, resps,
                              [cache |-> g.cache, store |-> store, created |-> 0,
                               failed |-> 0, calls |-> g.calls, valid |-> TRUE])} :
                   /\ r.valid
                   /\ rules_cache' = r.cache
                   /\ store' = r.store
                   /\ error_message' = g.err
                   /\ last' = [op |-> "auto_create",
                               args |-> [missing |-> g.report.missing_proxies,
                                         sent |-> sent,
                                         created |-> r.created, failed |-> r.failed],
                               ok |-> TRUE, msg |-> "", rules |-> g.actual_rules,
                               report |-> g.report, calls |-> r.calls]
    /\ UNCHANGED <<authenticated, services, inventory>>

\* ------------------------------------------- inventory.py: string helpers
\* A str is the sequence of its code points. ord() of the ASCII characters
\* that the names, images and keywords below are written with.
ord(ch) ==
    LET Hyphens == <<"-", ".", "/">>
        Numerals == <<"0", "1", "2", "3", "4", "5", "6", "7", "8", "9">>
        Capitals ==
            <<"A", "B", "C", "D", "E", "F", "G", "H", "I", "J", "K", "L", "M",
              "N", "O", "P", "Q", "R", "S", "T", "U", "V", "W", "X", "Y", "Z">>
        Smalls ==
            <<"a", "b", "c", "d", "e", "f", "g", "h", "i", "j", "k", "l", "m",
              "n", "o", "p", "q", "r", "s", "t", "u", "v", "w", "x", "y", "z">>
        In(chars) == \E i \in 1..Len(chars) : chars[i] = ch
        At(chars) == CHOOSE i \in 1..Len(chars) : chars[i] = ch
    IN IF In(Smalls) THEN 96 + At(Smalls)
       ELSE IF In(Capitals) THEN 64 + At(Capitals)
       ELSE IF In(Numerals) THEN 47 + At(Numerals)
       ELSE 44 + At(Hyphens)

\* The str written with the characters chars.
Text(chars) == [i \in 1..Len(chars) |-> ord(chars[i])]

\* The characters str.lower() maps to one other character (Unicode 14.0.0,
\* the database of Python 3.11), as rows <<first, last, step, delta>>:
\* every step-th character c of first..last becomes c + delta.
LowerRows ==
    <<<<65, 90, 1, 32>>, <<192, 214, 1, 32>>, <<216, 222, 1, 32>>,
      <<256, 302, 2, 1>>, <<306, 310, 2, 1>>, <<313, 327, 2, 1>>,
      <<330, 374, 2, 1>>, <<376, 376, 1, -121>>, <<377, 381, 2, 1>>,
      <<385, 385, 1, 210>>, <<386, 388, 2, 1>>, <<390, 390, 1, 206>>,
      <<391, 391, 1, 1>>, <<393, 394, 1, 205>>, <<395, 395, 1, 1>>,
      <<398, 398, 1, 79>>, <<399, 399, 1, 202>>, <<400, 400, 1, 203>>,
      <<401, 401, 1, 1>>, <<403, 403, 1, 205>>, <<404, 404, 1, 207>>,
      <<406, 406, 1, 211>>, <<407, 407, 1, 209>>, <<408, 408, 1, 1>>,
      <<412, 412, 1, 211>>, <<413, 413, 1, 213>>, <<415, 415, 1, 214>>,
      <<416, 420, 2, 1>>, <<422, 422, 1, 218>>, <<423, 423, 1, 1>>,
      <<425, 425, 1, 218>>, <<428, 428, 1, 1>>, <<430, 430, 1, 218>>,
      <<431, 431, 1, 1>>, <<433, 434, 1, 217>>, <<435, 437, 2, 1>>,
      <<439, 439, 1, 219>>, <<440, 440, 1, 1>>, <<444, 444, 1, 1>>,
      <<452, 452, 1, 2>>, <<453, 453, 1, 1>>, <<455, 455, 1, 2>>,
      <<456, 456, 1, 1>>, <<458, 458, 1, 2>>, <<459, 475, 2, 1>>,
      <<478, 494, 2, 1>>, <<497, 497, 1, 2>>, <<498, 500, 2, 1>>,
      <<502, 502, 1, -97>>, <<503, 503, 1, -56>>, <<504, 542, 2, 1>>,
      <<544, 544, 1, -130>>, <<546, 562, 2, 1>>, <<570, 570, 1, 10795>>,
      <<571, 571, 1, 1>>, <<573, 573, 1, -163>>, <<574, 574, 1, 10792>>,
      <<577, 577, 1, 1>>, <<579, 579, 1, -195>>, <<580, 580, 1, 69>>,
      <<581, 581, 1, 71>>, <<582, 590, 2, 1>>, <<880, 882, 2, 1>>,
      <<886, 886, 1, 1>>, <<895, 895, 1, 116>>, <<902, 902, 1, 38>>,
      <<904, 906, 1, 37>>, <<908, 908, 1, 64>>, <<910, 911, 1, 63>>,
      <<913, 929, 1, 32>>, <<932, 939, 1, 32>>, <<975, 975, 1, 8>>,
      <<984, 1006, 2, 1>>, <<1012, 1012, 1, -60>>, <<1015, 1015, 1, 1>>,
      <<1017, 1017, 1, -7>>, <<1018, 1018, 1, 1>>, <<1021, 1023, 1, -130>>,
      <<1024, 1039, 1, 80>>, <<1040, 1071, 1, 32>>, <<1120, 1152, 2, 1>>,
      <<1162, 1214, 2, 1>>, <<1216, 1216, 1, 15>>, <<1217, 1229, 2, 1>>,
      <<1232, 1326, 2, 1>>, <<1329, 1366, 1, 48>>, <<4256, 4293, 1, 7264>>,
      <<4295, 4295, 1, 7264>>, <<4301, 4301, 1, 7264>>, <<5024, 5103, 1, 38864>>,
      <<5104, 5109, 1, 8>>, <<7312, 7354, 1, -3008>>, <<7357, 7359, 1, -3008>>,
      <<7680, 7828, 2, 1>>, <<7838, 7838, 1, -7615>>, <<7840, 7934, 2, 1>>,
      <<7944, 7951, 1, -8>>, <<7960, 7965, 1, -8>>, <<7976, 7983, 1, -8>>,
      <<7992, 7999, 1, -8>>, <<8008, 8013, 1, -8>>, <<8025, 8031, 2, -8>>,
      <<8040, 8047, 1, -8>>, <<8072, 8079, 1, -8>>, <<8088, 8095, 1, -8>>,
      <<8104, 8111, 1, -8>>, <<8120, 8121, 1, -8>>, <<8122, 8123, 1, -74>>,
      <<8124, 8124, 1, -9>>, <<8136, 8139, 1, -86>>, <<8140, 8140, 1, -9>>,
      <<8152, 8153, 1, -8>>, <<8154, 8155, 1, -100>>, <<8168, 8169, 1, -8>>,
      <<8170, 8171, 1, -112>>, <<8172, 8172, 1, -7>>, <<8184, 8185, 1, -128>>,
      <<8186, 8187, 1, -126>>, <<8188, 8188, 1, -9>>, <<8486, 8486, 1, -7517>>,
      <<8490, 8490, 1, -8383>>, <<8491, 8491, 1, -8262>>, <<8498, 8498, 1, 28>>,
      <<8544, 8559, 1, 16>>, <<8579, 8579, 1, 1>>, <<9398, 9423, 1, 26>>,
      <<11264, 11311, 1, 48>>, <<11360, 11360, 1, 1>>, <<11362, 11362, 1, -10743>>,
      <<11363, 11363, 1, -3814>>, <<11364, 11364, 1, -10727>>, <<11367, 11371, 2, 1>>,
      <<11373, 11373, 1, -10780>>, <<11374, 11374, 1, -10749>>, <<11375, 11375, 1, -10783>>,
      <<11376, 11376, 1, -10782>>, <<11378, 11378, 1, 1>>, <<11381, 11381, 1, 1>>,
      <<11390, 11391, 1, -10815>>, <<11392, 11490, 2, 1>>, <<11499, 11501, 2, 1>>,
      <<11506, 11506, 1, 1>>, <<42560, 42604, 2, 1>>, <<42624, 42650, 2, 1>>,
      <<42786, 42798, 2, 1>>, <<42802, 42862, 2, 1>>, <<42873, 42875, 2, 1>>,
      <<42877, 42877, 1, -35332>>, <<42878, 42886, 2, 1>>, <<42891, 42891, 1, 1>>,
      <<42893, 42893, 1, -42280>>, <<42896, 42898, 2, 1>>, <<42902, 42920, 2, 1>>,
      <<42922, 42922, 1, -42308>>, <<42923, 42923, 1, -42319>>, <<42924, 42924, 1, -42315>>,
      <<42925, 42925, 1, -42305>>, <<42926, 42926, 1, -42308>>, <<42928, 42928, 1, -42258>>,
      <<42929, 42929, 1, -42282>>, <<42930, 42930, 1, -42261>>, <<42931, 42931, 1, 928>>,
      <<42932, 42946, 2, 1>>, <<42948, 42948, 1, -48>>, <<42949, 42949, 1, -42307>>,
      <<42950, 42950, 1, -35384>>, <<42951, 42953, 2, 1>>, <<42960, 42960, 1, 1>>,
      <<42966, 42968, 2, 1>>, <<42997, 42997, 1, 1>>, <<65313, 65338, 1, 32>>,
      <<66560, 66599, 1, 40>>, <<66736, 66771, 1, 40>>, <<66928, 66964, 2, 39>>,
      <<66929, 66937, 2, 39>>, <<66941, 66953, 2, 39>>, <<66957, 66961, 2, 39>>,
      <<66965, 66965, 1, 39>>, <<68736, 68786, 1, 64>>, <<71840, 71871, 1, 32>>,
      <<93760, 93791, 1, 32>>, <<125184, 125217, 1, 34>>>>

\* The characters with the Case_Ignorable property, as ranges <<first, last>>.
CaseIgnorable ==
    <<<<39, 39>>, <<46, 46>>, <<58, 58>>, <<94, 94>>, <<96, 96>>,
      <<168, 168>>, <<173, 173>>, <<175, 175>>, <<180, 180>>, <<183, 184>>,
      <<688, 879>>, <<884, 885>>, <<890, 890>>, <<900, 901>>, <<903, 903>>,
      <<1155, 1161>>, <<1369, 1369>>, <<1375, 1375>>, <<1425, 1469>>, <<1471, 1471>>,
      <<1473, 1474>>, <<1476, 1477>>, <<1479, 1479>>, <<1524, 1524>>, <<1536, 1541>>,
      <<1552, 1562>>, <<1564, 1564>>, <<1600, 1600>>, <<1611, 1631>>, <<1648, 1648>>,
      <<1750, 1757>>, <<1759, 1768>>, <<1770, 1773>>, <<1807, 1807>>, <<1809, 1809>>,
      <<1840, 1866>>, <<1958, 1968>>, <<2027, 2037>>, <<2042, 2042>>, <<2045, 2045>>,
      <<2070, 2093>>, <<2137, 2139>>, <<2184, 2184>>, <<2192, 2193>>, <<2200, 2207>>,
      <<2249, 2306>>, <<2362, 2362>>, <<2364, 2364>>, <<2369, 2376>>, <<2381, 2381>>,
      <<2385, 2391>>, <<2402, 2403>>, <<2417, 2417>>, <<2433, 2433>>, <<2492, 2492>>,
      <<2497, 2500>>, <<2509, 2509>>, <<2530, 2531>>, <<2558, 2558>>, <<2561, 2562>>,
      <<2620, 2620>>, <<2625, 2626>>, <<2631, 2632>>, <<2635, 2637>>, <<2641, 2641>>,
      <<2672, 2673>>, <<2677, 2677>>, <<2689, 2690>>, <<2748, 2748>>, <<2753, 2757>>,
      <<2759, 2760>>, <<2765, 2765>>, <<2786, 2787>>, <<2810, 2815>>, <<2817, 2817>>,
      <<2876, 2876>>, <<2879, 2879>>, <<2881, 2884>>, <<2893, 2893>>, <<2901, 2902>>,
      <<2914, 2915>>, <<2946, 2946>>, <<3008, 3008>>, <<3021, 3021>>, <<3072, 3072>>,
      <<3076, 3076>>, <<3132, 3132>>, <<3134, 3136>>, <<3142, 3144>>, <<3146, 3149>>,
      <<3157, 3158>>, <<3170, 3171>>, <<3201, 3201>>, <<3260, 3260>>, <<3263, 3263>>,
      <<3270, 3270>>, <<3276, 3277>>, <<3298, 3299>>, <<3328, 3329>>, <<3387, 3388>>,
      <<3393, 3396>>, <<3405, 3405>>, <<3426, 3427>>, <<3457, 3457>>, <<3530, 3530>>,
      <<3538, 3540>>, <<3542, 3542>>, <<3633, 3633>>, <<3636, 3642>>, <<3654, 3662>>,
      <<3761, 3761>>, <<3764, 3772>>, <<3782, 3782>>, <<3784, 3789>>, <<3864, 3865>>,
      <<3893, 3893>>, <<3895, 3895>>, <<3897, 3897>>, <<3953, 3966>>, <<3968, 3972>>,
      <<3974, 3975>>, <<3981, 3991>>, <<3993, 4028>>, <<4038, 4038>>, <<4141, 4144>>,
      <<4146, 4151>>, <<4153, 4154>>, <<4157, 4158>>, <<4184, 4185>>, <<4190, 4192>>,
      <<4209, 4212>>, <<4226, 4226>>, <<4229, 4230>>, <<4237, 4237>>, <<4253, 4253>>,
      <<4348, 4348>>, <<4957, 4959>>, <<5906, 5908>>, <<5938, 5939>>, <<5970, 5971>>,
      <<6002, 6003>>, <<6068, 6069>>, <<6071, 6077>>, <<6086, 6086>>, <<6089, 6099>>,
      <<6103, 6103>>, <<6109, 6109>>, <<6155, 6159>>, <<6211, 6211>>, <<6277, 6278>>,
      <<6313, 6313>>, <<6432, 6434>>, <<6439, 6440>>, <<6450, 6450>>, <<6457, 6459>>,
      <<6679, 6680>>, <<6683, 6683>>, <<6742, 6742>>, <<6744, 6750>>, <<6752, 6752>>,
      <<6754, 6754>>, <<6757, 6764>>, <<6771, 6780>>, <<6783, 6783>>, <<6823, 6823>>,
      <<6832, 6862>>, <<6912, 6915>>, <<6964, 6964>>, <<6966, 6970>>, <<6972, 6972>>,
      <<6978, 6978>>, <<7019, 7027>>, <<7040, 7041>>, <<7074, 7077>>, <<7080, 7081>>,
      <<7083, 7085>>, <<7142, 7142>>, <<7144, 7145>>, <<7149, 7149>>, <<7151, 7153>>,
      <<7212, 7219>>, <<7222, 7223>>, <<7288, 7293>>, <<7376, 7378>>, <<7380, 7392>>,
      <<7394, 7400>>, <<7405, 7405>>, <<7412, 7412>>, <<7416, 7417>>, <<7468, 7530>>,
      <<7544, 7544>>, <<7579, 7679>>, <<8125, 8125>>, <<8127, 8129>>, <<8141, 8143>>,
      <<8157, 8159>>, <<8173, 8175>>, <<8189, 8190>>, <<8203, 8207>>, <<8216, 8217>>,
      <<8228, 8228>>, <<8231, 8231>>, <<8234, 8238>>, <<8288, 8292>>, <<8294, 8303>>,
      <<8305, 8305>>, <<8319, 8319>>, <<8336, 8348>>, <<8400, 8432>>, <<11388, 11389>>,
      <<11503, 11505>>, <<11631, 11631>>, <<11647, 11647>>, <<11744, 11775>>, <<11823, 11823>>,
      <<12293, 12293>>, <<12330, 12333>>, <<12337, 12341>>, <<12347, 12347>>, <<12441, 12446>>,
      <<12540, 12542>>, <<40981, 40981>>, <<42232, 42237>>, <<42508, 42508>>, <<42607, 42610>>,
      <<42612, 42621>>, <<42623, 42623>>, <<42652, 42655>>, <<42736, 42737>>, <<42752, 42785>>,
      <<42864, 42864>>, <<42888, 42890>>, <<42994, 42996>>, <<43000, 43001>>, <<43010, 43010>>,
      <<43014, 43014>>, <<43019, 43019>>, <<43045, 43046>>, <<43052, 43052>>, <<43204, 43205>>,
      <<43232, 43249>>, <<43263, 43263>>, <<43302, 43309>>, <<43335, 43345>>, <<43392, 43394>>,
      <<43443, 43443>>, <<43446, 43449>>, <<43452, 43453>>, <<43471, 43471>>, <<43493, 43494>>,
      <<43561, 43566>>, <<43569, 43570>>, <<43573, 43574>>, <<43587, 43587>>, <<43596, 43596>>,
      <<43632, 43632>>, <<43644, 43644>>, <<43696, 43696>>, <<43698, 43700>>, <<43703, 43704>>,
      <<43710, 43711>>, <<43713, 43713>>, <<43741, 43741>>, <<43756, 43757>>, <<43763, 43764>>,
      <<43766, 43766>>, <<43867, 43871>>, <<43881, 43883>>, <<44005, 44005>>, <<44008, 44008>>,
      <<44013, 44013>>, <<64286, 64286>>, <<64434, 64450>>, <<65024, 65039>>, <<65043, 65043>>,
      <<65056, 65071>>, <<65106, 65106>>, <<65109, 65109>>, <<65279, 65279>>, <<65287, 65287>>,
      <<65294, 65294>>, <<65306, 65306>>, <<65342, 65342>>, <<65344, 65344>>, <<65392, 65392>>,
      <<65438, 65439>>, <<65507, 65507>>, <<65529, 65531>>, <<66045, 66045>>, <<66272, 66272>>,
      <<66422, 66426>>, <<67456, 67461>>, <<67463, 67504>>, <<67506, 67514>>, <<68097, 68099>>,
      <<68101, 68102>>, <<68108, 68111>>, <<68152, 68154>>, <<68159, 68159>>, <<68325, 68326>>,
      <<68900, 68903>>, <<69291, 69292>>, <<69446, 69456>>, <<69506, 69509>>, <<69633, 69633>>,
      <<69688, 69702>>, <<69744, 69744>>, <<69747, 69748>>, <<69759, 69761>>, <<69811, 69814>>,
      <<69817, 69818>>, <<69821, 69821>>, <<69826, 69826>>, <<69837, 69837>>, <<69888, 69890>>,
      <<69927, 69931>>, <<69933, 69940>>, <<70003, 70003>>, <<70016, 70017>>, <<70070, 70078>>,
      <<70089, 70092>>, <<70095, 70095>>, <<70191, 70193>>, <<70196, 70196>>, <<70198, 70199>>,
      <<70206, 70206>>, <<70367, 70367>>, <<70371, 70378>>, <<70400, 70401>>, <<70459, 70460>>,
      <<70464, 70464>>, <<70502, 70508>>, <<70512, 70516>>, <<70712, 70719>>, <<70722, 70724>>,
      <<70726, 70726>>, <<70750, 70750>>, <<70835, 70840>>, <<70842, 70842>>, <<70847, 70848>>,
      <<70850, 70851>>, <<71090, 71093>>, <<71100, 71101>>, <<71103, 71104>>, <<71132, 71133>>,
      <<71219, 71226>>, <<71229, 71229>>, <<71231, 71232>>, <<71339, 71339>>, <<71341, 71341>>,
      <<71344, 71349>>, <<71351, 71351>>, <<71453, 71455>>, <<71458, 71461>>, <<71463, 71467>>,
      <<71727, 71735>>, <<71737, 71738>>, <<71995, 71996>>, <<71998, 71998>>, <<72003, 72003>>,
      <<72148, 72151>>, <<72154, 72155>>, <<72160, 72160>>, <<72193, 72202>>, <<72243, 72248>>,
      <<72251, 72254>>, <<72263, 72263>>, <<72273, 72278>>, <<72281, 72283>>, <<72330, 72342>>,
      <<72344, 72345>>, <<72752, 72758>>, <<72760, 72765>>, <<72767, 72767>>, <<72850, 72871>>,
      <<72874, 72880>>, <<72882, 72883>>, <<72885, 72886>>, <<73009, 73014>>, <<73018, 73018>>,
      <<73020, 73021>>, <<73023, 73029>>, <<73031, 73031>>, <<73104, 73105>>, <<73109, 73109>>,
      <<73111, 73111>>, <<73459, 73460>>, <<78896, 78904>>, <<92912, 92916>>, <<92976, 92982>>,
      <<92992, 92995>>, <<94031, 94031>>, <<94095, 94111>>, <<94176, 94177>>, <<94179, 94180>>,
      <<110576, 110579>>, <<110581, 110587>>, <<110589, 110590>>, <<113821, 113822>>, <<113824, 113827>>,
      <<118528, 118573>>, <<118576, 118598>>, <<119143, 119145>>, <<119155, 119170>>, <<119173, 119179>>,
      <<119210, 119213>>, <<119362, 119364>>, <<121344, 121398>>, <<121403, 121452>>, <<121461, 121461>>,
      <<121476, 121476>>, <<121499, 121503>>, <<121505, 121519>>, <<122880, 122886>>, <<122888, 122904>>,
      <<122907, 122913>>, <<122915, 122916>>, <<122918, 122922>>, <<123184, 123197>>, <<123566, 123566>>,
      <<123628, 123631>>, <<125136, 125142>>, <<125252, 125259>>, <<127995, 127999>>, <<917505, 917505>>,
      <<917536, 917631>>, <<917760, 917999>>>>

\* The characters with the Cased property that are not Case_Ignorable.
CasedLetters ==
    <<<<65, 90>>, <<97, 122>>, <<170, 170>>, <<181, 181>>, <<186, 186>>,
      <<192, 214>>, <<216, 246>>, <<248, 442>>, <<444, 447>>, <<452, 659>>,
      <<661, 687>>, <<880, 883>>, <<886, 887>>, <<891, 893>>, <<895, 895>>,
      <<902, 902>>, <<904, 906>>, <<908, 908>>, <<910, 929>>, <<931, 1013>>,
      <<1015, 1153>>, <<1162, 1327>>, <<1329, 1366>>, <<1376, 1416>>, <<4256, 4293>>,
      <<4295, 4295>>, <<4301, 4301>>, <<4304, 4346>>, <<4349, 4351>>, <<5024, 5109>>,
      <<5112, 5117>>, <<7296, 7304>>, <<7312, 7354>>, <<7357, 7359>>, <<7424, 7467>>,
      <<7531, 7543>>, <<7545, 7578>>, <<7680, 7957>>, <<7960, 7965>>, <<7968, 8005>>,
      <<8008, 8013>>, <<8016, 8023>>, <<8025, 8025>>, <<8027, 8027>>, <<8029, 8029>>,
      <<8031, 8061>>, <<8064, 8116>>, <<8118, 8124>>, <<8126, 8126>>, <<8130, 8132>>,
      <<8134, 8140>>, <<8144, 8147>>, <<8150, 8155>>, <<8160, 8172>>, <<8178, 8180>>,
      <<8182, 8188>>, <<8450, 8450>>, <<8455, 8455>>, <<8458, 8467>>, <<8469, 8469>>,
      <<8473, 8477>>, <<8484, 8484>>, <<8486, 8486>>, <<8488, 8488>>, <<8490, 8493>>,
      <<8495, 8500>>, <<8505, 8505>>, <<8508, 8511>>, <<8517, 8521>>, <<8526, 8526>>,
      <<8544, 8575>>, <<8579, 8580>>, <<9398, 9449>>, <<11264, 11387>>, <<11390, 11492>>,
      <<11499, 11502>>, <<11506, 11507>>, <<11520, 11557>>, <<11559, 11559>>, <<11565, 11565>>,
      <<42560, 42605>>, <<42624, 42651>>, <<42786, 42863>>, <<42865, 42887>>, <<42891, 42894>>,
      <<42896, 42954>>, <<42960, 42961>>, <<42963, 42963>>, <<42965, 42969>>, <<42997, 42998>>,
      <<43002, 43002>>, <<43824, 43866>>, <<43872, 43880>>, <<43888, 43967>>, <<64256, 64262>>,
      <<64275, 64279>>, <<65313, 65338>>, <<65345, 65370>>, <<66560, 66639>>, <<66736, 66771>>,
      <<66776, 66811>>, <<66928, 66938>>, <<66940, 66954>>, <<66956, 66962>>, <<66964, 66965>>,
      <<66967, 66977>>, <<66979, 66993>>, <<66995, 67001>>, <<67003, 67004>>, <<68736, 68786>>,
      <<68800, 68850>>, <<71840, 71903>>, <<93760, 93823>>, <<119808, 119892>>, <<119894, 119964>>,
      <<119966, 119967>>, <<119970, 119970>>, <<119973, 119974>>, <<119977, 119980>>, <<119982, 119993>>,
      <<119995, 119995>>, <<119997, 120003>>, <<120005, 120069>>, <<120071, 120074>>, <<120077, 120084>>,
      <<120086, 120092>>, <<120094, 120121>>, <<120123, 120126>>, <<120128, 120132>>, <<120134, 120134>>,
      <<120138, 120144>>, <<120146, 120485>>, <<120488, 120512>>, <<120514, 120538>>, <<120540, 120570>>,
      <<120572, 120596>>, <<120598, 120628>>, <<120630, 120654>>, <<120656, 120686>>, <<120688, 120712>>,
      <<120714, 120744>>, <<120746, 120770>>, <<120772, 120779>>, <<122624, 122633>>, <<122635, 122654>>,
      <<125184, 125251>>, <<127280, 127305>>, <<127312, 127337>>, <<127344, 127369>>>>

InRanges(c, ranges) ==
    \E k \in 1..Len(ranges) : ranges[k][1] <= c /\ c <= ranges[k][2]

\* str.lower() on a character with a one-character lowercase.
LowerChar(c) ==
    LET InRow(row) == row[1] <= c /\ c <= row[2] /\ (c - row[1]) % row[3] = 0
    IN IF c < 128
       THEN IF 65 <= c /\ c <= 90 THEN c + 32 ELSE c
       ELSE IF \E k \in 1..Len(LowerRows) : InRow(LowerRows[k])
       THEN c + LowerRows[CHOOSE k \in 1..Len(LowerRows) : InRow(LowerRows[k])][4]
       ELSE c

\* U+03A3, the capital sigma, and U+0130, the capital I with a dot above.
CapitalSigma == 931
CapitalIWithDot == 304

\* The capital sigma at position i ends a word: the nearest character before
\* it that is not case-ignorable is cased, and the nearest one after it that
\* is not case-ignorable, if there is one, is not.
FinalSigma(s, i) ==
    /\ \E j \in 1..(i - 1) :
          /\ InRanges(s[j], CasedLetters)
          /\ \A k \in (j + 1)..(i - 1) : InRanges(s[k], CaseIgnorable)
    /\ ~\E j \in (i + 1)..Len(s) :
          /\ InRanges(s[j], CasedLetters)
          /\ \A k \in (i + 1)..(j - 1) : InRanges(s[k], CaseIgnorable)

\* What str.lower() puts for the character at position i: U+03C2 for a
\* final sigma and U+03C3 for any other, i and U+0307 for U+0130.
LowerAt(s, i) ==
    IF s[i] = CapitalSigma
    THEN IF FinalSigma(s, i) THEN <<962>> ELSE <<963>>
    ELSE IF s[i] = CapitalIWithDot
    THEN <<105, 775>>
    ELSE <<LowerChar(s[i])>>

RECURSIVE LowerFrom(_, _)
LowerFrom(s, i) == IF i > Len(s) THEN <<>> ELSE LowerAt(s, i) \o LowerFrom(s, i + 1)

\* s.lower()
Lower(s) == LowerFrom(s, 1)

\* `kw in s` on strings: kw is empty, or s has its first character at a
\* place from which the rest follows.
Contains(s, kw) ==
    \/ kw = <<>>
    \/ \E i \in 1..(Len(s) - Len(kw) + 1) :
          s[i] = kw[1] /\ \A j \in 2..Len(kw) : s[i + j - 1] = kw[j]

\* s.lstrip('/')
RECURSIVE LStripSlash(_)
LStripSlash(s) ==
    IF s # <<>> /\ s[1] = ord("/") THEN LStripSlash(Tail(s)) ELSE s

\* dict.get(key, default) on a function.
DictGet(d, key, default) == IF key \in DOMAIN d THEN d[key] ELSE default

\* ----------------------------------------------- inventory.py: ports
\* sorted() of a list of integers.
RECURSIVE SortedInsert(_, _)
SortedInsert(sorted_ports, p) ==
    IF sorted_ports = <<>> \/ p < sorted_ports[1]
    THEN <<p>> \o sorted_ports
    ELSE <<sorted_ports[1]>> \o SortedInsert(Tail(sorted_ports), p)

RECURSIVE Sorted(_)
Sorted(ports) ==
    IF ports = <<>> THEN <<>>
    ELSE SortedInsert(Sorted(SubSeq(ports, 1, Len(ports) - 1)), ports[Len(ports)])

\* The loop of _extract_ports from mapping i on.
RECURSIVE PublishedPorts(_, _, _)
PublishedPorts(ports_config, i, published_ports) ==
    IF i > Len(ports_config)
    THEN published_ports
    ELSE LET public_port == ports_config[i].PublicPort
         IN PublishedPorts(ports_config, i + 1,
                IF PortTruthy(public_port)
                THEN Append(published_ports, public_port)
                ELSE published_ports)

_extract_ports(container) == Sorted(PublishedPorts(container.Ports, 1, <<>>))

PortainerKeyword == Text(<<"p", "o", "r", "t", "a", "i", "n", "e", "r">>)
PortainerWebPort == 9000

\* _get_proxy_port without the Portainer case.
_get_proxy_port_FirstOnly(container_name, ports) ==
    IF ports = <<>> THEN NoPort ELSE ports[1]

_get_proxy_port(container_name, ports) ==
    IF ports = <<>>
    THEN NoPort
    ELSE IF /\ Contains(Lower(container_name), PortainerKeyword)
            /\ \E i \in 1..Len(ports) : ports[i] = PortainerWebPort
    THEN PortainerWebPort
    ELSE ports[1]

internal_keywords ==
    {Text(<<"d", "a", "t", "a", "b", "a", "s", "e">>), Text(<<"d", "b">>),
     Text(<<"p", "o", "s", "t", "g", "r", "e", "s">>), Text(<<"m", "y", "s", "q", "l">>),
     Text(<<"m", "a", "r", "i", "a", "d", "b">>), Text(<<"m", "o", "n", "g", "o">>),
     Text(<<"r", "e", "d", "i", "s">>), Text(<<"c", "a", "c", "h", "e">>),
     Text(<<"r", "a", "b", "b", "i", "t", "m", "q">>), Text(<<"k", "a", "f", "k", "a">>),
     Text(<<"z", "o", "o", "k", "e", "e", "p", "e", "r">>),
     Text(<<"e", "l", "a", "s", "t", "i", "c", "s", "e", "a", "r", "c", "h">>),
     Text(<<"l", "o", "g", "s", "t", "a", "s", "h">>)}

_needs_reverse_proxy(service_name, image) ==
    \A service_lower \in {Lower(service_name)}, image_lower \in {Lower(image)} :
        ~\E keyword \in internal_keywords :
            Contains(service_lower, keyword) \/ Contains(image_lower, keyword)

\* ------------------------------------------ inventory.py: _build_inventory
ProjectLabel == "com.docker.compose.project"
ServiceLabel == "com.docker.compose.service"
NetworkModeLabel == "com.docker.compose.network_mode"

\* The dict assignment as a list append: a key stored twice appears twice.
ServicesPut_Append(svcs, info) == Append(svcs, info)

\* services[key] = info on the dict as a sequence: an existing key keeps
\* its position, a new key goes last.
ServicesPut(svcs, info) ==
    IF \E i \in 1..Len(svcs) : svcs[i].container_name = info.container_name
    THEN [i \in 1..Len(svcs) |->
             IF svcs[i].container_name = info.container_name THEN info ELSE svcs[i]]
    ELSE Append(svcs, info)

\* The entry _build_inventory stores for a container that has a name.
ServiceInfo(container) ==
    LET container_name == LStripSlash(container.Names[1])
        labels == container.Labels
        service_name == DictGet(labels, ServiceLabel, container_name)
        ports == _extract_ports(container)
    IN [service_name |-> service_name,
        container_name |-> container_name,
        stack_dir |-> DictGet(labels, ProjectLabel, "standalone"),
        image |-> container.Image,
        state |-> container.State,
        ports |-> ports,
        port |-> _get_proxy_port(container_name, ports),
        needs_proxy |-> _needs_reverse_proxy(service_name, container.Image),
        labels |-> labels,
        network_mode |-> DictGet(labels, NetworkModeLabel, "default")]

\* The loop `for container in self.containers` from index i on.
RECURSIVE _build_inventory(_, _, _)
_build_inventory(containers, i, svcs) ==
    IF i > Len(containers)
    THEN svcs
    ELSE _build_inventory(containers, i + 1,
            IF containers[i].Names = <<>>
            THEN svcs
            ELSE ServicesPut(svcs, ServiceInfo(containers[i])))

\* ------------------------------------------ inventory.py: PortainerClient
\* Answers of the Portainer API to one request: status 200 with a JSON
\* body, another status, or no response (connection error, timeout).
HttpOk(body) == [kind |-> "ok", status |-> 200, body |-> body]
HttpStatus(status) == [kind |-> "status", status |-> status, body |-> <<>>]
HttpExc == [kind |-> "exc", status |-> 0, body |-> <<>>]

\* The result of get_endpoints as a record: the returned list and the
\* client's error_message.
get_endpoints(client_authenticated, client_error, resp) ==
    IF ~client_authenticated
    THEN [ret |-> <<>>, err |-> client_error, calls |-> <<>>]
    ELSE IF resp.kind = "ok"
    THEN [ret |-> resp.body, err |-> client_error,
          calls |-> <<[method |-> "get_endpoints", resp |-> resp]>>]
    ELSE IF resp.kind = "status"
    THEN [ret |-> <<>>, err |-> "Failed to get endpoints: " \o ToString(resp.status),
          calls |-> <<[method |-> "get_endpoints", resp |-> resp]>>]
    ELSE [ret |-> <<>>, err |-> "Error getting endpoints",
          calls |-> <<[method |-> "get_endpoints", resp |-> resp]>>]

get_stacks(client_authenticated, endpoint_id, resp) ==
    IF ~client_authenticated
    THEN [ret |-> <<>>, calls |-> <<>>]
    ELSE [ret |-> IF resp.kind = "ok"
                  THEN SelectSeq(resp.body, LAMBDA s : s.EndpointId = endpoint_id)
                  ELSE <<>>,
          calls |-> <<[method |-> "get_stacks", resp |-> resp]>>]

get_containers(client_authenticated, endpoint_id, resp) ==
    IF ~client_authenticated
    THEN [ret |-> <<>>, calls |-> <<>>]
    ELSE [ret |-> IF resp.kind = "ok" THEN resp.body ELSE <<>>,
          calls |-> <<[method |-> "get_containers", resp |-> resp]>>]

\* ---------------------------------------------- inventory.py: scan_stacks
\* The loop `for endpoint in self.endpoints` from index i on; answers[i]
\* holds the API's answers to the two requests made for endpoint i.
RECURSIVE EndpointLoop(_, _, _, _)
EndpointLoop(inv, i, answers, calls) ==
    IF i > Len(inv.endpoints)
    THEN [inventory |-> inv, calls |-> calls]
    ELSE LET endpoint_id == inv.endpoints[i].Id
             s == get_stacks(inv.authenticated, endpoint_id, answers[i].stacks)
             c == get_containers(inv.authenticated, endpoint_id, answers[i].containers)
         IN EndpointLoop([inv EXCEPT !.stacks = @ \o s.ret,
                                     !.containers = @ \o c.ret],
                         i + 1, answers, calls \o s.calls \o c.calls)

\* scan_stacks that starts from an empty service dict and container list.
scan_stacks_ClearFirst(inv, svcs, endpoints_resp, answers) ==
    IF ~inv.authenticated
    THEN [inventory |-> inv, services |-> <<>>, calls |-> <<>>]
    ELSE LET e == get_endpoints(inv.authenticated, inv.error_message, endpoints_resp)
             l == EndpointLoop([inv EXCEPT !.endpoints = e.ret, !.error_message = e.err,
                                           !.containers = <<>>],
                               1, answers, e.calls)
         IN [inventory |-> l.inventory,
             services |-> _build_inventory(l.inventory.containers, 1, <<>>),
             calls |-> l.calls]

\* The result of scan_stacks as a record: the inventory object's fields,
\* its service dict and the requests made with their answers.
scan_stacks(inv, svcs, endpoints_resp, answers) ==
    IF ~inv.authenticated
    THEN [inventory |-> inv, services |-> svcs, calls |-> <<>>]
    ELSE LET e == get_endpoints(inv.authenticated, inv.error_message, endpoints_resp)
             l == EndpointLoop([inv EXCEPT !.endpoints = e.ret, !.error_message = e.err],
                               1, answers, e.calls)
         IN [inventory |-> l.inventory,
             services |-> _build_inventory(l.inventory.containers, 1, svcs),
             calls |-> l.calls]

\* The number of endpoints the scan will visit.
EndpointsVisited(inv, endpoints_resp) ==
    IF inv.authenticated /\ endpoints_resp.kind = "ok" THEN Len(endpoints_resp.body) ELSE 0

\* The containers and stacks the inventory holds after the scan.
HeldAfter(inv, endpoints_resp, answers) ==
    IF ~inv.authenticated
    THEN Len(inv.containers) + Len(inv.stacks)
    ELSE LET e == get_endpoints(inv.authenticated, inv.error_message, endpoints_resp)
             l == EndpointLoop([inv EXCEPT !.endpoints = e.ret], 1, answers, <<>>)
         IN Len(l.inventory.containers) + Len(l.inventory.stacks)

ScanStacks(endpoints_resp, answers) ==
    /\ Len(answers) = EndpointsVisited(inventory, endpoints_resp)
    /\ HeldAfter(inventory, endpoints_resp, answers) <= MaxHeld
    /\ \E r \in {scan_stacks(inventory, services, endpoints_resp, answers)} :
       /\ Len(r.inventory.containers) + Len(r.inventory.stacks) <= MaxHeld
       /\ inventory' = r.inventory
       /\ services' = r.services
       /\ last' = [op |-> "scan_stacks", args |-> NoArgs, ok |-> TRUE, msg |-> "",
                   rules |-> <<>>, report |-> EmptyReport, calls |-> r.calls]
       /\ UNCHANGED <<authenticated, error_message, rules_cache, store>>

\* ----------------------------------- inventory.py: a new inventory object
\* authenticate: the fields it leaves; of the messages the text before
\* ": " is kept.
authenticate(resp) ==
    IF resp.kind = "ok"
    THEN [authenticated |-> TRUE, error_message |-> "None"]
    ELSE IF resp.kind = "status"
    THEN [authenticated |-> FALSE,
          error_message |-> "Authentication failed (" \o ToString(resp.status) \o ")"]
    ELSE [authenticated |-> FALSE, error_message |-> "Connection error"]

\* client.authenticate() on the client of the session's inventory: the
\* client's two fields are set, the lists and the service dict stay.
Authenticate(resp) ==
    /\ \E a \in {authenticate(resp)} :
          /\ inventory' = [inventory EXCEPT !.authenticated = a.authenticated,
                                            !.error_message = a.error_message]
          /\ last' = [op |-> "authenticate", args |-> NoArgs,
                      ok |-> a.authenticated, msg |-> "",
                      rules |-> <<>>, report |-> EmptyReport,
                      calls |-> <<[method |-> "authenticate", resp |-> resp]>>]
    /\ UNCHANGED <<authenticated, error_message, rules_cache, store, services>>

\* client.get_endpoints() called on its own: the returned list is not kept,
\* an answer other than 200 leaves its message in the client.
GetEndpoints(resp) ==
    /\ \E e \in {get_endpoints(inventory.authenticated, inventory.error_message, resp)} :
          /\ inventory' = [inventory EXCEPT !.error_message = e.err]
          /\ last' = [op |-> "get_endpoints", args |-> NoArgs,
                      ok |-> TRUE, msg |-> "",
                      rules |-> <<>>, report |-> EmptyReport, calls |-> e.calls]
    /\ UNCHANGED <<authenticated, error_message, rules_cache, store, services>>

\* InfrastructureInventory(...): the client has authenticated, the lists
\* and the service dict are empty.
NewInventory(resp) ==
    [authenticated |-> authenticate(resp).authenticated,
     error_message |-> authenticate(resp).error_message,
     endpoints |-> <<>>, stacks |-> <<>>, containers |-> <<>>]

\* The Scan Portainer button: a new inventory object is constructed and,
\* when its client is logged in, scanned and put in the session's place.
ScanPortainer(auth_resp, endpoints_resp, answers) ==
    /\ Len(answers) = EndpointsVisited(NewInventory(auth_resp), endpoints_resp)
    /\ HeldAfter(NewInventory(auth_resp), endpoints_resp, answers) <= MaxHeld
    /\ \E r \in {scan_stacks(NewInventory(auth_resp), <<>>, endpoints_resp, answers)} :
       /\ Len(r.inventory.containers) + Len(r.inventory.stacks) <= MaxHeld
       /\ IF r.inventory.authenticated
          THEN inventory' = r.inventory /\ services' = r.services
          ELSE UNCHANGED <<inventory, services>>
       /\ last' = [op |-> "scan_portainer", args |-> NoArgs,
                   ok |-> r.inventory.authenticated, msg |-> "",
                   rules |-> <<>>, report |-> EmptyReport, calls |-> r.calls]
       /\ UNCHANGED <<authenticated, error_message, rules_cache, store>>

\* ------------------------------- inventory.py: ports across the services
\* defaultdict(list) append: port_usage[port].append(container_name)
UsagePut(port_usage, port, container_name) ==
    DictPut(port_usage, port,
            (IF port \in DOMAIN port_usage THEN port_usage[port] ELSE <<>>)
                \o <<container_name>>)

\* The loop of check_port_conflicts from service i on.
RECURSIVE PortUsage(_, _, _)
PortUsage(svcs, i, port_usage) ==
    IF i > Len(svcs)
    THEN port_usage
    ELSE PortUsage(svcs, i + 1,
                   IF PortTruthy(svcs[i].port)
                   THEN UsagePut(port_usage, svcs[i].port, svcs[i].container_name)
                   ELSE port_usage)

\* check_port_conflicts keeping every used port.
check_port_conflicts_NoFilter(svcs) == PortUsage(svcs, 1, <<>>)

check_port_conflicts(svcs) ==
    LET port_usage == PortUsage(svcs, 1, <<>>)
    IN [port \in {p \in DOMAIN port_usage : Len(port_usage[p]) > 1} |-> port_usage[port]]

CheckPortConflicts ==
    /\ last' = [op |-> "check_port_conflicts", args |-> NoArgs,
                ret |-> check_port_conflicts(services)]
    /\ UNCHANGED <<authenticated, error_message, rules_cache, store, services, inventory>>

\* `for port in range(start, stop): if port not in used_ports: return port`
\* followed by `return None`.
RECURSIVE FirstFreePort(_, _, _)
FirstFreePort(port, stop, used_ports) ==
    IF port >= stop THEN NoPort
    ELSE IF port \notin used_ports THEN port
    ELSE FirstFreePort(port + 1, stop, used_ports)

DefaultRangeEnd == 9000

InventoryUsedPorts(svcs) ==
    {svcs[i].port : i \in {k \in 1..Len(svcs) : PortTruthy(svcs[k].port)}}

get_next_available_port(svcs, start, end) ==
    FirstFreePort(start, end, InventoryUsedPorts(svcs))

GetNextAvailablePort(start) ==
    /\ last' = [op |-> "get_next_available_port",
                args |-> [start |-> start, used_ports |-> InventoryUsedPorts(services)],
                ret |-> get_next_available_port(services, start, DefaultRangeEnd)]
    /\ UNCHANGED <<authenticated, error_message, rules_cache, store, services, inventory>>

\* -------------------------- reverse_proxy.py: get_used_ports, suggest_next_port
\* sorted() of a set of integers.
RECURSIVE SortedSet(_)
SortedSet(S) ==
    IF S = {} THEN <<>>
    ELSE LET m == CHOOSE x \in S : \A y \in S : x <= y
         IN <<m>> \o SortedSet(S \ {m})

\* get_used_ports on the rules list_rules returned.
get_used_ports(rules) ==
    SortedSet({rules[i].backend.port :
                  i \in {k \in 1..Len(rules) : PortTruthy(rules[k].backend.port)}})

PortRangeEnd == 65536

suggest_next_port(auth, cache, err, st, start_range, resp) ==
    LET l == list_rules(auth, cache, err, st, FALSE, resp)
        used_ports == get_used_ports(l.ret)
    IN [ret |-> FirstFreePort(start_range, PortRangeEnd,
                              {used_ports[i] : i \in 1..Len(used_ports)}),
        used_ports |-> used_ports, rules |-> l.ret,
        cache |-> l.cache, err |-> l.err, calls |-> l.calls]

SuggestNextPort(start_range, resp) ==
    LET r == suggest_next_port(authenticated, rules_cache, error_message, store,
                               start_range, resp)
    IN /\ rules_cache' = r.cache
       /\ error_message' = r.err
       /\ last' = [op |-> "suggest_next_port",
                   args |-> [start |-> start_range,
                             used_ports |-> {r.used_ports[i] : i \in 1..Len(r.used_ports)}],
                   ret |-> r.ret, rules |-> r.rules, calls |-> r.calls]
       /\ UNCHANGED <<authenticated, store, services, inventory>>

\* ---------------------------------- reverse_proxy.py: domain_port_exists
\* A JSON port as Python holds it: an int, a str or None. A str is the
\* sequence of its characters, each character being its Unicode code point.
IntVal(n) == [type |-> "int", n |-> n, s |-> <<>>]
StrVal(s) == [type |-> "str", n |-> 0, s |-> s]
NoneVal == [type |-> "None", n |-> 0, s |-> <<>>]

\* The characters int() gives a meaning of their own: "+", "-", "_", "0".
PlusSign == 43
MinusSign == 45
Underscore == 95
AsciiZero == 48

\* The characters int() takes for whitespace: the ASCII ones (tab, line
\* feed, vertical tab, form feed, carriage return, space) and the Unicode
\* spaces beyond ASCII (U+0085, U+00A0, U+1680, U+2000..U+200A, U+2028,
\* U+2029, U+202F, U+205F, U+3000). The ASCII separators U+001C..U+001F
\* are whitespace for str.isspace() and not for int().
WhitespaceChars ==
    {9, 10, 11, 12, 13, 32, 133, 160, 5760} \cup (8192..8202)
        \cup {8232, 8233, 8239, 8287, 12288}

\* The digit zero of every script with decimal digits (Unicode category
\* Nd); the digits 0..9 of a script are the ten code points from its zero.
DecimalZeros ==
    {48, 1632, 1776, 1984, 2406, 2534, 2662, 2790, 2918, 3046, 3174, 3302,
     3430, 3558, 3664, 3792, 3872, 4160, 4240, 6112, 6160, 6470, 6608,
     6784, 6800, 6992, 7088, 7232, 7248, 42528, 43216, 43264, 43472, 43504,
     43600, 44016, 65296, 66720, 68912, 69734, 69872, 69942, 70096, 70384,
     70736, 70864, 71248, 71360, 71472, 71904, 72016, 72784, 73040, 73120,
     92768, 92864, 93008, 120782, 120792, 120802, 120812, 120822, 123200,
     123632, 125264, 130032}

\* The characters int() reads as a decimal digit, and the digit's value.
IsDigit(c) == \E z \in DecimalZeros : z <= c /\ c <= z + 9
DigitValue(c) == c - (CHOOSE z \in DecimalZeros : z <= c /\ c <= z + 9)

\* The decimal digits of a natural number, as str() writes them.
RECURSIVE FormatDigits(_)
FormatDigits(n) ==
    IF n < 10 THEN <<AsciiZero + n>>
    ELSE FormatDigits(n \div 10) \o <<AsciiZero + (n % 10)>>

\* s without its leading and trailing whitespace.
RECURSIVE StripWhitespace(_)
StripWhitespace(s) ==
    IF s = <<>> THEN s
    ELSE IF s[1] \in WhitespaceChars THEN StripWhitespace(Tail(s))
    ELSE IF s[Len(s)] \in WhitespaceChars THEN StripWhitespace(SubSeq(s, 1, Len(s) - 1))
    ELSE s

\* The digits part of an integer literal: digits, with single underscores
\* between digits only.
IsDigitGroup(s) ==
    /\ s # <<>>
    /\ IsDigit(s[1])
    /\ IsDigit(s[Len(s)])
    /\ \A i \in 1..Len(s) : IsDigit(s[i]) \/ s[i] = Underscore
    /\ \A i \in 1..(Len(s) - 1) : ~(s[i] = Underscore /\ s[i + 1] = Underscore)

WithoutUnderscores(s) == SelectSeq(s, LAMBDA c : c # Underscore)

\* The most digits int() converts (sys.int_max_str_digits as Python sets
\* it): a literal with more digits raises ValueError.
IntMaxStrDigits == 4300

\* An integer as int() returns it: its sign and its decimal digits (their
\* values, most significant first) without leading zeros; zero is <<0>>
\* and has no sign. Python's integers have no width.
IntOfDigits(negative, ds) ==
    LET first == IF \A i \in 1..Len(ds) : ds[i] = 0
                 THEN Len(ds)
                 ELSE CHOOSE i \in 1..Len(ds) :
                          ds[i] # 0 /\ \A j \in 1..(i - 1) : ds[j] = 0
        digits == SubSeq(ds, first, Len(ds))
    IN [raised |-> FALSE, negative |-> negative /\ digits # <<0>>, digits |-> digits]

IntRaised == [raised |-> TRUE, negative |-> FALSE, digits |-> <<>>]

\* int(s) on a string: whitespace around it is dropped, a sign may
\* precede the digits, underscores may separate digits, and there are at
\* most IntMaxStrDigits digits, leading zeros counted. A string with more
\* characters other than underscores raises whatever they are.
IntOfString(s) ==
    LET t == StripWhitespace(s)
        signed == t # <<>> /\ t[1] \in {PlusSign, MinusSign}
        body == IF signed THEN Tail(t) ELSE t
        digits == WithoutUnderscores(body)
    IN IF Len(digits) > IntMaxStrDigits THEN IntRaised
       ELSE IF ~IsDigitGroup(body) THEN IntRaised
       ELSE IntOfDigits(signed /\ t[1] = MinusSign,
                        [i \in 1..Len(digits) |-> DigitValue(digits[i])])

\* int(v): the value, or raised (TypeError for None, ValueError for a
\* string that is not an integer literal or has too many digits).
PyInt(v) ==
    IF v.type = "int"
    THEN LET text == FormatDigits(IF v.n < 0 THEN -v.n ELSE v.n)
         IN IntOfDigits(v.n < 0, [i \in 1..Len(text) |-> text[i] - AsciiZero])
    ELSE IF v.type = "str" THEN IntOfString(v.s)
    ELSE IntRaised

\* str(v); str(None) is the four characters of "None".
PyStr(v) ==
    IF v.type = "int"
    THEN (IF v.n < 0 THEN <<MinusSign>> \o FormatDigits(-v.n) ELSE FormatDigits(v.n))
    ELSE IF v.type = "str" THEN v.s
    ELSE <<78, 111, 110, 101>>

\* The body of the loop comparing the ports as they are, without conversion.
RuleMatches_NoConversion(rule, domain, port) ==
    /\ rule.frontend.port # NoneVal
    /\ rule.frontend.fqdn = domain
    /\ rule.frontend.port = port

\* The body of the loop `for rule in rules`: TRUE when it returns True.
RuleMatches(rule, domain, port) ==
    LET existing_port == rule.frontend.port
    IN /\ existing_port # NoneVal
       /\ rule.frontend.fqdn = domain
       /\ \E a \in {PyInt(existing_port)}, b \in {PyInt(port)} :
             IF a.raised \/ b.raised
             THEN PyStr(existing_port) = PyStr(port)
             ELSE a.negative = b.negative /\ a.digits = b.digits

domain_port_exists(auth, cache, err, st, domain, port, resp) ==
    LET l == list_rules(auth, cache, err, st, FALSE, resp)
    IN [ret |-> \E i \in 1..Len(l.ret) : RuleMatches(l.ret[i], domain, port),
        rules |-> l.ret, cache |-> l.cache, err |-> l.err, calls |-> l.calls]

DomainPortExists(domain, port, resp) ==
    /\ \E r \in {domain_port_exists(authenticated, rules_cache, error_message, store,
                                     domain, port, resp)} :
          /\ rules_cache' = r.cache
          /\ error_message' = r.err
          /\ last' = [op |-> "domain_port_exists",
                      args |-> [domain |-> domain, port |-> port],
                      ret |-> r.ret, rules |-> r.rules, calls |-> r.calls]
    /\ UNCHANGED <<authenticated, store, services, inventory>>

\* An inventory object whose client is logged in; the manager's operations
\* read only its service dict.
ConnectedInventory ==
    [authenticated |-> TRUE, error_message |-> "None",
     endpoints |-> <<>>, stacks |-> <<>>, containers |-> <<>>]

\* ------------------------------------------------------------------ init
InitLast ==
    [op |-> "init", args |-> NoArgs, ok |-> TRUE, msg |-> "",
     rules |-> <<>>, report |-> EmptyReport, calls |-> <<>>]

\* ------------------------------------------------------------- login
\* The answers of auth.cgi to a login: success, a refusal with an error
\* code, no usable answer (no connection, a timeout, a body that is not
\* JSON: each a requests RequestException), or a JSON body that is not
\* an object, on which data.get raises.
MalformedResp == [kind |-> "malformed", code |-> 0]
LoginRefusedCodes == {400}
LoginResponses ==
    {OkResp, ExcResp, MalformedResp} \cup {ErrResp(c) : c \in LoginRefusedCodes}

\* login: the fields it leaves; of the two exception messages the text
\* before ": " is kept. A RequestException gives "Connection error", any
\* other exception "Unexpected error".
login(resp) ==
    IF resp.kind = "ok"
    THEN [authenticated |-> TRUE, error_message |-> "None"]
    ELSE IF resp.kind = "error"
    THEN [authenticated |-> FALSE,
          error_message |-> "Login failed. Error code: " \o ToString(resp.code)]
    ELSE IF resp.kind = "exc"
    THEN [authenticated |-> FALSE, error_message |-> "Connection error"]
    ELSE [authenticated |-> FALSE, error_message |-> "Unexpected error"]

\* login called on the manager: it sets authenticated and error_message
\* and leaves rules_cache as it is.
Login(resp) ==
    /\ \E r \in {login(resp)} :
          /\ authenticated' = r.authenticated
          /\ error_message' = r.error_message
          /\ last' = [op |-> "login", args |-> NoArgs, ok |-> r.authenticated,
                      msg |-> "", rules |-> <<>>, report |-> EmptyReport,
                      calls |-> <<>>]
    /\ UNCHANGED <<rules_cache, store, services, inventory>>

\* The Connect button: a new manager is constructed, and it replaces the
\* session's manager when its login succeeded.
Connect(resp) ==
    /\ \E r \in {login(resp)} :
          /\ IF r.authenticated
             THEN /\ authenticated' = TRUE
                  /\ error_message' = r.error_message
                  /\ rules_cache' = None
             ELSE UNCHANGED <<authenticated, error_message, rules_cache>>
          /\ last' = [op |-> "connect", args |-> NoArgs, ok |-> r.authenticated,
                      msg |-> "", rules |-> <<>>, report |-> EmptyReport,
                      calls |-> <<>>]
    /\ UNCHANGED <<store, services, inventory>>

\* The rule for the service that needs a proxy, as its callers submit it.
WellFormedEntry ==
    RuleEntry("app", "bazarr" \o DomainSuffix, "notmyproblemnas", 1,
              DefaultFrontendPort, TRUE, FALSE)

\* What the store holds when the manager is constructed: nothing, or the
\* rule of an earlier session.
InitialStores == {<<>>, <<StoredRule(1, WellFormedEntry)>>}

\* The manager after construction (login done).
Init ==
    /\ \E resp \in LoginResponses :
          /\ authenticated = login(resp).authenticated
          /\ error_message = login(resp).error_message
    /\ rules_cache = None
    /\ store \in InitialStores
    /\ services \in ScenarioInventories
    /\ inventory = ConnectedInventory
    /\ last = InitLast

Next ==
    \/ \E refresh \in BOOLEAN, resp \in ListResponses : ListRules(refresh, resp)
    \/ \E entry \in RuleEntries, resp \in MutationResponses : AddRule(entry, resp)
    \/ \E rule_id \in RuleIds, resp \in DeleteResponses : DeleteRule(rule_id, resp)
    \/ \E rule_uuids \in IdLists, resp \in DeleteResponses :
          DeleteRulesBulk(rule_uuids, resp)
    \/ \E resp \in ListResponses : GenerateSyncReport(resp)
    \/ \E resp \in LoginResponses : Login(resp)

Spec == Init /\ [][Next]_vars

\* The manager's session over a link that can lose the store's answer: the
\* creates and deletes of the scenario's rule, each answered, refused,
\* never delivered, or carried out with the answer lost.
SessionEntries == {e \in RuleEntries : e.frontend.port = DefaultFrontendPort}

LossyResponses == {OkResp, ExcResp, LostResp}

NextSession ==
    \/ \E refresh \in BOOLEAN, resp \in ListResponses : ListRules(refresh, resp)
    \/ \E entry \in SessionEntries, resp \in MutationResponses \cup LossyResponses :
          AddRule(entry, resp)
    \/ \E rule_id \in RuleIds, resp \in LossyResponses : DeleteRule(rule_id, resp)
    \/ \E rule_uuids \in IdLists, resp \in LossyResponses :
          DeleteRulesBulk(rule_uuids, resp)
    \/ \E resp \in LoginResponses : Login(resp)
    \/ \E resp \in LoginResponses : Connect(resp)

SpecSession == Init /\ [][NextSession]_vars

\* The reconciliation engine alone, over every inventory and every rule set
\* within the bounds: a manager just constructed in front of a store that
\* holds rules with distinct identifiers and distinct frontend pairs.
DistinctPairs(es) ==
    \A i, j \in 1..Len(es) :
        i # j => ~(es[i].frontend.fqdn = es[j].frontend.fqdn
                   /\ es[i].frontend.port = es[j].frontend.port)

Stores ==
    {[i \in 1..Len(es) |-> StoredRule(i, es[i])] :
        es \in {e \in UNION {[1..n -> ListedEntries] : n \in 0..MaxRules} : DistinctPairs(e)}}

InitReport ==
    /\ \E resp \in LoginResponses :
          /\ authenticated = login(resp).authenticated
          /\ error_message = login(resp).error_message
    /\ store \in Stores
    /\ rules_cache = None
    /\ services \in Inventories
    /\ inventory = ConnectedInventory
    /\ last = InitLast

NextReport == \E resp \in ListResponses : GenerateSyncReport(resp)

SpecReport == InitReport /\ [][NextReport]_vars

\* add_rule called directly, with arguments of any kind: empty strings and
\* backend ports outside 1..65535 next to well-formed ones.
\* The well-formed entry and the entries that differ from it in one argument.
GatewayEntries ==
    {WellFormedEntry,
     [WellFormedEntry EXCEPT !.description = ""],
     [WellFormedEntry EXCEPT !.frontend.fqdn = ""],
     [WellFormedEntry EXCEPT !.backend.fqdn = ""]}
    \cup {[WellFormedEntry EXCEPT !.backend.port = p] : p \in {0, 65536}}

NextGateway ==
    \/ \E entry \in GatewayEntries, resp \in MutationResponses : AddRule(entry, resp)
    \/ \E refresh \in BOOLEAN, resp \in ListResponses : ListRules(refresh, resp)

SpecGateway == Init /\ [][NextGateway]_vars

\* ------------------------------------------------------ the inventory scan
\* What the Portainer API lists: a compose service published on both
\* address families, an internal database, Portainer itself with its two
\* ports and a mapping that is not published, and a container without name.
BazarrContainer ==
    [Names |-> << Text(<<"/", "b", "a", "z", "a", "r", "r", "-", "1">>) >>,
     Image |-> Text(<<"b", "a", "z", "a", "r", "r">>),
     State |-> "running",
     Labels |-> (ProjectLabel :> "media") @@ (ServiceLabel :> Text(<<"b", "a", "z", "a", "r", "r">>)),
     Ports |-> <<[IP |-> "0.0.0.0", PublicPort |-> 6767],
                 [IP |-> "::", PublicPort |-> 6767]>>]

DbContainer ==
    [Names |-> << Text(<<"/", "d", "b">>) >>,
     Image |-> Text(<<"p", "o", "s", "t", "g", "r", "e", "s">>),
     State |-> "running",
     Labels |-> <<>>,
     Ports |-> <<[IP |-> "0.0.0.0", PublicPort |-> 5432]>>]

PortainerContainer ==
    [Names |-> << Text(<<"/", "P", "o", "r", "t", "a", "i", "n", "e", "r">>) >>,
     Image |-> Text(<<"p", "o", "r", "t", "a", "i", "n", "e", "r", "-", "c", "e">>),
     State |-> "running",
     Labels |-> <<>>,
     Ports |-> <<[IP |-> "0.0.0.0", PublicPort |-> 9443],
                 [IP |-> "0.0.0.0", PublicPort |-> PortainerWebPort],
                 [IP |-> "", PublicPort |-> NoPort],
                 [IP |-> "0.0.0.0", PublicPort |-> 8000]>>]

NamelessContainer ==
    [Names |-> <<>>,
     Image |-> Text(<<"b", "a", "z", "a", "r", "r">>),
     State |-> "exited",
     Labels |-> <<>>,
     Ports |-> <<>>]

\* A container none of whose mappings is published.
WorkerContainer ==
    [Names |-> << Text(<<"/", "w", "o", "r", "k", "e", "r">>) >>,
     Image |-> Text(<<"w", "o", "r", "k", "e", "r">>),
     State |-> "running",
     Labels |-> <<>>,
     Ports |-> <<[IP |-> "", PublicPort |-> NoPort]>>]

\* A message broker whose image name is written with U+212A KELVIN SIGN,
\* code point 8490, a capital letter whose lowercase is the ASCII k.
BrokerContainer ==
    [Names |-> << Text(<<"/", "b", "r", "o", "k", "e", "r">>) >>,
     Image |-> <<8490>> \o Text(<<"a", "f", "k", "a">>),
     State |-> "running",
     Labels |-> <<>>,
     Ports |-> <<[IP |-> "0.0.0.0", PublicPort |-> 9092]>>]

\* The bodies the API answers with.
ContainerBodies ==
    {<<>>, <<BazarrContainer>>, <<BazarrContainer, DbContainer, BrokerContainer>>,
     <<PortainerContainer, NamelessContainer>>, <<WorkerContainer>>}
EndpointBodies == {<<>>, <<[Id |-> 1]>>}
StackBodies == {<<[Id |-> 1, EndpointId |-> 1], [Id |-> 2, EndpointId |-> 2]>>}

AuthResponses == {HttpOk(<<>>), HttpStatus(401), HttpExc}
EndpointsResponses == {HttpOk(b) : b \in EndpointBodies} \cup {HttpStatus(500), HttpExc}
StacksResponses == {HttpOk(b) : b \in StackBodies} \cup {HttpStatus(500)}
ContainersResponses == {HttpOk(b) : b \in ContainerBodies} \cup {HttpStatus(500), HttpExc}

EndpointAnswers == [stacks : StacksResponses, containers : ContainersResponses]

\* An inventory object just constructed, logged in or not, next to a
\* manager that is logged in and in front of an empty store.
InitScan ==
    /\ authenticated = TRUE
    /\ error_message = "None"
    /\ rules_cache = None
    /\ store = <<>>
    /\ services = <<>>
    /\ inventory \in {NewInventory(resp) : resp \in AuthResponses}
    /\ last = InitLast

NextScan ==
    \/ \E endpoints_resp \in EndpointsResponses :
          \E answers \in UNION {[1..n -> EndpointAnswers] : n \in 0..1} :
              ScanStacks(endpoints_resp, answers)
    \/ \E auth_resp \in AuthResponses, endpoints_resp \in EndpointsResponses :
          \E answers \in UNION {[1..n -> EndpointAnswers] : n \in 0..1} :
              ScanPortainer(auth_resp, endpoints_resp, answers)
    \/ \E resp \in AuthResponses : Authenticate(resp)
    \/ \E resp \in EndpointsResponses : GetEndpoints(resp)
    \/ \E resp \in ListResponses : GenerateSyncReport(resp)

SpecScan == InitScan /\ [][NextScan]_vars

\* ------------------------------------------- the port functions alone
\* _extract_ports and _get_proxy_port applied to every list of at most
\* MaxMappings port mappings and to container names with and without the
\* Portainer keyword.
PublicPortInputs == {NoPort, 8000, PortainerWebPort, 9443}
PortConfigs ==
    UNION {[1..n -> [IP : {"0.0.0.0"}, PublicPort : PublicPortInputs]] : n \in 0..MaxMappings}

PortainerNames ==
    {Text(<<"P", "o", "r", "t", "a", "i", "n", "e", "r">>),
     Text(<<"m", "y", "-", "p", "o", "r", "t", "a", "i", "n", "e", "r", "-", "1">>)}
\* The last name is PORTAINER written with U+0130, the capital I with a dot
\* above, whose lowercase is i followed by U+0307.
OtherNames ==
    {Text(<<"b", "a", "z", "a", "r", "r">>),
     Text(<<"p", "o", "r", "t", "a", "l">>),
     Text(<<"P", "O", "R", "T", "A">>) \o <<CapitalIWithDot>> \o Text(<<"N", "E", "R">>)}
NameInputs == PortainerNames \cup OtherNames

ExtractPorts(ports_config) ==
    /\ last' = [op |-> "_extract_ports", args |-> [ports_config |-> ports_config],
                ret |-> _extract_ports([Ports |-> ports_config])]
    /\ UNCHANGED <<authenticated, error_message, rules_cache, store, services, inventory>>

\* _get_proxy_port as _build_inventory calls it: on the extracted ports.
GetProxyPort(container_name, ports_config) ==
    LET ports == _extract_ports([Ports |-> ports_config])
    IN /\ last' = [op |-> "_get_proxy_port",
                   args |-> [container_name |-> container_name, ports |-> ports],
                   ret |-> _get_proxy_port(container_name, ports)]
       /\ UNCHANGED <<authenticated, error_message, rules_cache, store, services, inventory>>

NextPorts ==
    \/ \E ports_config \in PortConfigs : ExtractPorts(ports_config)
    \/ \E container_name \in NameInputs, ports_config \in PortConfigs :
          GetProxyPort(container_name, ports_config)

SpecPorts == InitScan /\ [][NextPorts]_vars

\* ------------------------------------------- ports across the inventory
\* The port functions of the inventory and of the manager, over service
\* dicts of up to three services whose proxy ports may coincide and over
\* stores whose rules use the top of the port range.
ConflictNames == {"bazarr", "postgres", "plex"}
ConflictPorts == {NoPort, 8999, DefaultRangeEnd}
ConflictEntries ==
    [container_name : ConflictNames, stack_dir : Stacks,
     port : ConflictPorts, needs_proxy : {TRUE}]
ConflictInventories ==
    {s \in UNION {[1..n -> ConflictEntries] : n \in 0..Cardinality(ConflictNames)} :
        DistinctKeys(s)}

TopPorts == {NoPort, 65534, 65535}
TopStores ==
    {<<>>}
    \cup {<<StoredRule(1, RuleEntry("app", "bazarr" \o DomainSuffix, "notmyproblemnas",
                                    p, DefaultFrontendPort, TRUE, FALSE))>> : p \in TopPorts}
    \cup {<<StoredRule(1, RuleEntry("app", "bazarr" \o DomainSuffix, "notmyproblemnas",
                                    p, DefaultFrontendPort, TRUE, FALSE)),
            StoredRule(2, RuleEntry("app", "plex" \o DomainSuffix, "notmyproblemnas",
                                    q, DefaultFrontendPort, TRUE, FALSE))>> :
             p \in TopPorts, q \in TopPorts}

StartInputs == {8000, 8999, DefaultRangeEnd, 65534, 65535}

InitInventory ==
    /\ authenticated = TRUE
    /\ error_message = "None"
    /\ rules_cache = None
    /\ \/ services \in ConflictInventories /\ store = <<>>
       \/ services = <<>> /\ store \in TopStores
    /\ inventory = ConnectedInventory
    /\ last = InitLast

NextInventory ==
    \/ CheckPortConflicts
    \/ \E start \in StartInputs : GetNextAvailablePort(start)
    \/ \E start_range \in StartInputs, resp \in ListResponses :
          SuggestNextPort(start_range, resp)

SpecInventory == InitInventory /\ [][NextInventory]_vars

\* ------------------------------------------- domain_port_exists alone
\* domain_port_exists in front of stores whose listing gives the frontend
\* port as a number, as a string or not at all.
ZeroPadded(n, s) == [i \in 1..(n - Len(s)) |-> AsciiZero] \o s

\* "443" after zeros, IntMaxStrDigits digits in all and one digit more.
LongPorts ==
    {StrVal(ZeroPadded(IntMaxStrDigits, <<52, 52, 51>>)),
     StrVal(ZeroPadded(IntMaxStrDigits + 1, <<52, 52, 51>>))}

StoredPorts ==
    {NoneVal, IntVal(443), IntVal(444),
     StrVal(<<52, 52, 51>>),              \* "443"
     StrVal(<<48, 52, 52, 51>>),          \* "0443"
     StrVal(<<52, 52, 51, 160>>),         \* "443" and a no-break space
     StrVal(<<52, 95, 52, 51>>),          \* "4_43"
     StrVal(<<1636, 1636, 1635>>),        \* 443 in Arabic-Indic digits
     StrVal(<<104, 116, 116, 112, 115>>)} \* "https"
\* The port of a second rule: absent, a number, a text.
SecondPorts == {NoneVal, IntVal(444), StrVal(<<52, 52, 51>>)}

QueryPorts ==
    {NoneVal, IntVal(443), IntVal(444),
     StrVal(<<52, 52, 51>>),              \* "443"
     StrVal(<<43, 52, 52, 51>>),          \* "+443"
     StrVal(<<11, 52, 52, 51>>),          \* a vertical tab and "443"
     StrVal(<<45, 49>>),                  \* "-1"
     StrVal(<<104, 116, 116, 112, 115>>)} \* "https"
QueryDomains == {"bazarr" \o DomainSuffix, "plex" \o DomainSuffix}

TypedRule(id, domain, port) ==
    [id |-> id, description |-> "app",
     frontend |-> [fqdn |-> domain, port |-> port, hsts |-> TRUE],
     backend |-> [fqdn |-> "notmyproblemnas", port |-> 1],
     customize_headers |-> <<>>]

TypedStores ==
    {<<>>}
    \cup {<<TypedRule(1, d, p)>> : d \in QueryDomains, p \in StoredPorts}
    \cup {<<TypedRule(1, "bazarr" \o DomainSuffix, p)>> : p \in LongPorts}
    \cup {<<TypedRule(1, d, p), TypedRule(2, e, q)>> :
             d \in QueryDomains, p \in StoredPorts, e \in QueryDomains, q \in SecondPorts}

InitExists ==
    /\ authenticated = TRUE
    /\ error_message = "None"
    /\ rules_cache = None
    /\ store \in TypedStores
    /\ services = <<>>
    /\ inventory = ConnectedInventory
    /\ last = InitLast

NextExists ==
    \E domain \in QueryDomains, port \in QueryPorts, resp \in ListResponses :
        DomainPortExists(domain, port, resp)

SpecExists == InitExists /\ [][NextExists]_vars

\* The stores the sync page starts with: empty, or one rule made by hand
\* for a domain no service is named after.
ConvergeStores ==
    {st \in Stores : Len(st) <= 1 /\ \A k \in 1..Len(st) : st[k].frontend.fqdn \notin Domains}

\* The sync page of a connected manager: any inventory in front of such a
\* store, reports and auto-creates in any order.
InitConverge ==
    /\ authenticated = TRUE
    /\ error_message = "None"
    /\ rules_cache = None
    /\ store \in ConvergeStores
    /\ services \in Inventories
    /\ inventory = ConnectedInventory
    /\ last = InitLast

NextConverge ==
    \/ \E resp \in ListResponses : AutoCreate(resp)
    \/ \E resp \in ListResponses : GenerateSyncReport(resp)
    \/ \E resp \in ListResponses : ListRules(TRUE, resp)

SpecConverge == InitConverge /\ [][NextConverge]_vars
\* =================================================================
\* Properties of the reports of generate_sync_report
\* =================================================================
IsReport == last.op = "generate_sync_report"

\* The rules the engine worked on: what list_rules(refresh=True) returned.
ActualRules == last.rules

ServiceIdx == 1..Len(services)
RuleIdx == 1..Len(ActualRules)

\* The service takes part in the reconciliation.
Eligible(i) == services[i].needs_proxy /\ PortTruthy(services[i].port)

\* Number of entries of a report sequence that name the service.
Occurrences(entries, name) ==
    Cardinality({k \in 1..Len(entries) : entries[k].service = name})

\* Number of orphaned entries for the rule identifier.
OrphanOccurrences(id) ==
    Cardinality({k \in 1..Len(last.report.orphaned_proxies) :
                    last.report.orphaned_proxies[k].id = id})

\* Some rule the engine worked on has this backend port.
SomeRuleHasPort(p) == \E k \in RuleIdx : ActualRules[k].backend.port = p

\* The last rule in listing order with this backend port.
LastRuleWithPort(p) ==
    ActualRules[CHOOSE k \in RuleIdx :
                   /\ ActualRules[k].backend.port = p
                   /\ \A j \in RuleIdx : j > k => ActualRules[j].backend.port # p]

\* The fetch made by the last operation failed.
FetchFailed(l) ==
    /\ Len(l.calls) = 1
    /\ l.calls[1].method = "list"
    /\ l.calls[1].resp.kind # "ok"

\* C1: in every report, each service with needs_proxy and a port is named
\* by exactly one entry of in_sync and missing_proxies taken together.
C1_ServicePartition ==
    IsReport =>
        \A i \in ServiceIdx :
            Eligible(i) =>
                Occurrences(last.report.in_sync, services[i].container_name)
                + Occurrences(last.report.missing_proxies, services[i].container_name) = 1

\* A report with one service in sync and another one missing.
C1_Witness ==
    /\ IsReport
    /\ Len(last.report.in_sync) = 1
    /\ Len(last.report.missing_proxies) = 1
    /\ \A i \in ServiceIdx : Eligible(i)

\* The rule is matched by a service reported in sync.
MatchedInSync(rule) ==
    \E k \in 1..Len(last.report.in_sync) :
        last.report.in_sync[k].port = rule.backend.port

\* C2 as stated: each rule is either matched by a service reported in sync
\* or listed in orphaned_proxies, never both and never neither.
C2_Original ==
    IsReport =>
        \A k \in RuleIdx :
            /\ OrphanOccurrences(ActualRules[k].id) <= 1
            /\ MatchedInSync(ActualRules[k]) # (OrphanOccurrences(ActualRules[k].id) = 1)

\* The proxy ports of the services that need a proxy.
NeedsProxyPorts == {services[i].port : i \in {j \in ServiceIdx : Eligible(j)}}

\* C3 as stated: a rule is listed in orphaned_proxies iff its backend port
\* is not the proxy port of a service that needs a proxy.
C3_Original ==
    IsReport =>
        \A k \in RuleIdx :
            (OrphanOccurrences(ActualRules[k].id) >= 1)
                <=> (ActualRules[k].backend.port \notin NeedsProxyPorts)

\* C4: a service with needs_proxy and port p is reported missing iff no
\* rule returned by the forced listing has backend port p, and in sync
\* otherwise, with the frontend domain of the last listed rule of port p
\* (the rule the lookup holds).
C4_MissingIffNoRule ==
    IsReport =>
        \A i \in ServiceIdx :
            Eligible(i) =>
                LET name == services[i].container_name
                    p == services[i].port
                IN /\ (Occurrences(last.report.missing_proxies, name) = 1)
                          <=> ~SomeRuleHasPort(p)
                   /\ (Occurrences(last.report.in_sync, name) = 1)
                          <=> SomeRuleHasPort(p)
                   /\ \A k \in 1..Len(last.report.in_sync) :
                          last.report.in_sync[k].service = name =>
                              /\ last.report.in_sync[k].port = p
                              /\ last.report.in_sync[k].domain
                                     = LastRuleWithPort(p).frontend.fqdn

\* A service in sync with a port that two listed rules of different
\* domains share, next to a missing service.
C4_Witness ==
    /\ IsReport
    /\ Len(last.report.missing_proxies) = 1
    /\ \E k \in 1..Len(last.report.in_sync) :
          \E a, b \in RuleIdx :
              /\ a < b
              /\ ActualRules[a].backend.port = last.report.in_sync[k].port
              /\ ActualRules[b].backend.port = last.report.in_sync[k].port
              /\ ActualRules[a].frontend.fqdn # ActualRules[b].frontend.fqdn

\* C5: a service with needs_proxy false, or without a port, is named by no
\* entry of in_sync or missing_proxies.
C5_IneligibleAbsent ==
    IsReport =>
        \A i \in ServiceIdx :
            ~Eligible(i) =>
                /\ Occurrences(last.report.in_sync, services[i].container_name) = 0
                /\ Occurrences(last.report.missing_proxies, services[i].container_name) = 0

\* A report over a service that needs no proxy whose port a listed rule
\* has, and a service that needs one but has no port.
C5_Witness ==
    /\ IsReport
    /\ \E i \in ServiceIdx :
          /\ ~services[i].needs_proxy
          /\ PortTruthy(services[i].port)
          /\ SomeRuleHasPort(services[i].port)
    /\ \E i \in ServiceIdx :
          services[i].needs_proxy /\ ~PortTruthy(services[i].port)
\* =================================================================
\* Properties of the gateway and of the rule cache
\* =================================================================
\* The sequence the cache holds, the empty one when there is no cache.
CachedRules(cache) == IF IsNone(cache) THEN <<>> ELSE cache[1]

\* C6 as stated: add_rule called with a frontend (domain, port) pair that
\* a rule of the store already has returns failure without any call to
\* the store.
C6_Original ==
    [][(/\ last'.op = "add_rule"
        /\ StoreHasPair(store, last'.args.frontend.fqdn, last'.args.frontend.port))
       => (~last'.ok /\ last'.calls = <<>>)]_vars

\* C7: a successful create or delete leaves the cache cleared, and a
\* list_rules call that directly follows it calls the store, whatever its
\* refresh flag, and returns the store's rules when that fetch succeeds.
C7_MutationInvalidates ==
    /\ (last.op \in MutationOps /\ last.ok) => IsNone(rules_cache)
    /\ (last.op = "list_rules" /\ last.args.after_mutation) =>
          /\ Len(last.calls) = 1
          /\ last.calls[1].method = "list"
          /\ last.calls[1].resp.kind = "ok" => last.rules = store

\* list_rules without refresh, directly after a successful mutation, has
\* fetched a non-empty rule set from the store.
C7_Witness ==
    /\ last.op = "list_rules"
    /\ last.args.after_mutation
    /\ ~last.args.refresh
    /\ Len(last.calls) = 1
    /\ last.calls[1].resp.kind = "ok"
    /\ Len(last.rules) >= 1
    /\ last.rules = store

\* C8 as stated: list_rules without refresh makes no call to the store and
\* returns the cached sequence whenever a cached result exists, whatever
\* its length.
C8_Original ==
    [][(/\ last'.op = "list_rules"
        /\ ~last'.args.refresh
        /\ authenticated
        /\ ~IsNone(rules_cache))
       => (/\ last'.calls = <<>>
           /\ last'.rules = CachedRules(rules_cache)
           /\ rules_cache' = rules_cache)]_vars

\* C9 as stated: a list_rules call whose fetch fails returns the cached
\* sequence if there is one and the empty sequence otherwise, records an
\* error and leaves the cache unchanged.
C9_Original ==
    [][(last'.op = "list_rules" /\ FetchFailed(last'))
       => (/\ last'.rules = CachedRules(rules_cache)
           /\ rules_cache' = rules_cache
           /\ error_message' \in {"Failed to list rules", "Error listing rules"})]_vars

\* C10 as stated: when the listing of a reconciliation fails, the report
\* is the one computed against the cached rules.
C10_Original ==
    [][(last'.op = "generate_sync_report" /\ FetchFailed(last'))
       => last'.report = BuildReport(services, CachedRules(rules_cache))]_vars
\* C15: delete_rules_bulk with an empty identifier list fails without a call
\* to the store and leaves rules_cache as it was; with N >= 1 identifiers that
\* the store accepts it succeeds, sets rules_cache to None and its message
\* starts with the count N.
BulkDeleteMessages(n) ==
    {ToString(n) \o " rule deleted successfully",
     ToString(n) \o " rules deleted successfully"}

StoreAccepted(l) ==
    /\ l.calls # <<>>
    /\ l.calls[1].resp.kind = "ok"

C15_BulkDelete ==
    [][(last'.op = "delete_rules_bulk")
       => /\ (last'.args.rule_uuids = <<>>)
              => /\ ~last'.ok
                 /\ last'.calls = <<>>
                 /\ rules_cache' = rules_cache
                 /\ store' = store
          /\ (last'.args.rule_uuids # <<>> /\ StoreAccepted(last'))
              => /\ last'.ok
                 /\ rules_cache' = None
                 /\ last'.msg \in BulkDeleteMessages(Len(last'.args.rule_uuids))]_vars

C15_Witness ==
    /\ last.op = "delete_rules_bulk"
    /\ Len(last.args.rule_uuids) = 2
    /\ last.ok
    /\ last.msg = "2 rules deleted successfully"
    /\ rules_cache = None
    /\ store = <<>>
\* C14: an add_rule whose description, frontend domain or backend host is
\* empty, or whose backend port is outside 1..65535, fails without a call to
\* the store and leaves the store and rules_cache as they were.
PreconditionViolated(entry) ==
    \/ entry.description = ""
    \/ entry.frontend.fqdn = ""
    \/ entry.backend.fqdn = ""
    \/ entry.backend.port \notin 1..65535
    \/ entry.frontend.port \notin 1..65535

C14_Original ==
    [][(last'.op = "add_rule" /\ PreconditionViolated(last'.args))
       => /\ ~last'.ok
          /\ last'.calls = <<>>
          /\ store' = store
          /\ rules_cache' = rules_cache]_vars
\* C16: a run of generate_sync_report that directly follows another run, on
\* the same services and the same store giving the same answer, returns the
\* report the first run returned, with the same entries in the same order.
C16_Idempotent ==
    [][(/\ last.op = "generate_sync_report"
        /\ last'.op = "generate_sync_report"
        /\ last'.calls = last.calls
        /\ services' = services
        /\ store' = store)
       => last'.report = last.report]_vars

C16_Witness ==
    /\ IsReport
    /\ last.args.rerun
    /\ ~FetchFailed(last)
    /\ last.calls # <<>>
    /\ last.report.in_sync # <<>>
    /\ last.report.orphaned_proxies # <<>>

\* C17: in front of the scenario inventory (a proxy-needing service on port
\* 1 and an internal one on another port), a store holding a single rule with
\* backend port 1 gives a report with that service in in_sync under the
\* rule's domain and nothing missing or orphaned; the run that follows the
\* deletion of that rule reports the service missing and nothing in sync.
ListingSucceeded == IsReport /\ last.calls # <<>> /\ ~FetchFailed(last)

C17_Scenario ==
    ListingSucceeded =>
        /\ (Len(store) = 1 /\ store[1].backend.port = 1)
            => /\ last.report.in_sync =
                     <<[service |-> "bazarr", port |-> 1,
                        domain |-> store[1].frontend.fqdn]>>
               /\ last.report.missing_proxies = <<>>
               /\ last.report.orphaned_proxies = <<>>
        /\ (last.args.after_delete /\ store = <<>>)
            => /\ last.report.missing_proxies =
                     <<[service |-> "bazarr", port |-> 1, stack |-> "standalone"]>>
               /\ last.report.in_sync = <<>>

C17_Witness ==
    /\ ListingSucceeded
    /\ last.args.after_delete
    /\ store = <<>>
    /\ last.report.missing_proxies # <<>>
    /\ last.report.missing_proxies[1].service = "bazarr"
    /\ last.report.in_sync = <<>>

\* ------------------------------------------------------- scan claims
IsScan == last.op = "scan_stacks"

\* The containers the API listed in the last scan, if it listed any.
AnsweredContainers ==
    LET idx == {k \in 1..Len(last.calls) : last.calls[k].method = "get_containers"}
    IN IF idx = {} THEN <<>> ELSE last.calls[CHOOSE k \in idx : TRUE].resp.body

AnsweredNames ==
    {LStripSlash(AnsweredContainers[i].Names[1]) :
        i \in {k \in 1..Len(AnsweredContainers) : AnsweredContainers[k].Names # <<>>}}

ServiceKeys == {services[i].container_name : i \in 1..Len(services)}

\* Every request of the scan was answered with status 200.
ScanSucceeded(l) ==
    /\ l.calls # <<>>
    /\ \A k \in 1..Len(l.calls) : l.calls[k].resp.kind = "ok"

\* Some request of the scan was not.
SomeCallFailed(l) == \E k \in 1..Len(l.calls) : l.calls[k].resp.kind # "ok"

\* The source could not be used: not logged in, or no request answered.
SourceUnusable(l, inv) ==
    \/ ~inv.authenticated
    \/ /\ l.calls # <<>>
       /\ \A k \in 1..Len(l.calls) : l.calls[k].resp.kind # "ok"

\* C11 as stated: after a scan_stacks whose requests all succeeded, the
\* service dict holds exactly the named containers of the current answer.
C11_Original ==
    (IsScan /\ ScanSucceeded(last)) => ServiceKeys = AnsweredNames

\* C12: a scan_stacks on an inventory that is not logged in, or none of
\* whose requests is answered, leaves the service dict as it was.
C12_FailedScanKeeps ==
    [][(last'.op = "scan_stacks" /\ SourceUnusable(last', inventory))
       => services' = services]_vars

C12_Witness ==
    /\ IsScan
    /\ SourceUnusable(last, inventory)
    /\ inventory.authenticated
    /\ Len(services) = 2

\* C13 as stated: after a scan_stacks one of whose requests failed, the
\* inventory's error message is set.
C13_Original ==
    (IsScan /\ SomeCallFailed(last)) => inventory.error_message # "None"

\* C18 as stated: every missing_proxies entry carries the service_name, the
\* port and the stack of a service of the inventory that takes part in the
\* reconciliation (the suggested domain is derived from the entry's service
\* by its callers, so it is service_name plus the suffix exactly when the
\* entry's service is the service_name).
C18_Original ==
    IsReport =>
        \A k \in 1..Len(last.report.missing_proxies) :
            \E i \in 1..Len(services) :
                /\ services[i].needs_proxy
                /\ last.report.missing_proxies[k].service = services[i].service_name
                /\ last.report.missing_proxies[k].port = services[i].port
                /\ last.report.missing_proxies[k].stack = services[i].stack_dir

\* --------------------------------------------------- port claims
RECURSIVE SeqMin(_)
SeqMin(s) == IF Len(s) = 1 THEN s[1]
             ELSE LET m == SeqMin(Tail(s)) IN IF s[1] < m THEN s[1] ELSE m

SeqSet(s) == {s[i] : i \in 1..Len(s)}

\* C19 as stated: the extracted ports are strictly ascending and are the
\* set of the non-zero PublicPort values of the mappings.
C19_Original ==
    (last.op = "_extract_ports") =>
        /\ \A i \in 1..(Len(last.ret) - 1) : last.ret[i] < last.ret[i + 1]
        /\ SeqSet(last.ret) =
             {last.args.ports_config[i].PublicPort : i \in 1..Len(last.args.ports_config)}
             \ {NoPort}

\* C20: for a name containing "portainer" in any case and ports containing
\* 9000 the proxy port is 9000; for every other name or ports, when there
\* are ports, it is the least of them.
C20_ProxyPort ==
    (last.op = "_get_proxy_port" /\ last.args.ports # <<>>) =>
        IF last.args.container_name \in PortainerNames
           /\ PortainerWebPort \in SeqSet(last.args.ports)
        THEN last.ret = PortainerWebPort
        ELSE last.ret = SeqMin(last.args.ports)

C20_Witness ==
    /\ last.op = "_get_proxy_port"
    /\ last.args.container_name \in PortainerNames
    /\ last.args.ports = <<8000, PortainerWebPort>>
    /\ last.ret = PortainerWebPort

\* C21: in every service dict a scan leaves, a service has no proxy port
\* exactly when it has no ports, its proxy port is otherwise one of its
\* ports, and no two services have the same container name.
C21_ServiceInvariant ==
    /\ \A i \in 1..Len(services) :
          /\ (services[i].port = NoPort) <=> (services[i].ports = <<>>)
          /\ services[i].ports # <<>>
                => \E k \in 1..Len(services[i].ports) :
                       services[i].ports[k] = services[i].port
    /\ \A i, j \in 1..Len(services) :
          i # j => services[i].container_name # services[j].container_name

C21_Witness ==
    /\ IsScan
    /\ Len(inventory.containers) > Len(services)
    /\ \E i, j \in 1..Len(services) :
          /\ services[i].ports = <<>> /\ services[i].port = NoPort
          /\ Len(services[j].ports) > 1 /\ services[j].port # NoPort

\* ------------------------------------------- inventory port claims
\* The container names of the services whose proxy port is p.
NamesOnPort(p) ==
    {services[i].container_name : i \in {k \in 1..Len(services) : services[k].port = p}}

\* C22: check_port_conflicts returns a mapping whose keys are exactly the
\* proxy ports that two or more services have, each mapped to every
\* container name that has it, once; a service without a proxy port is in
\* no group and a port of a single service is no key.
C22_PortConflicts ==
    (last.op = "check_port_conflicts") =>
        /\ DOMAIN last.ret =
              {p \in InventoryUsedPorts(services) : Cardinality(NamesOnPort(p)) >= 2}
        /\ \A p \in DOMAIN last.ret :
              /\ SeqSet(last.ret[p]) = NamesOnPort(p)
              /\ Len(last.ret[p]) = Cardinality(NamesOnPort(p))
        /\ \A i \in 1..Len(services) :
              services[i].port = NoPort
                => \A p \in DOMAIN last.ret : services[i].container_name \notin SeqSet(last.ret[p])

C22_Witness ==
    /\ last.op = "check_port_conflicts"
    /\ Len(services) = 3
    /\ \E i \in 1..3 : services[i].port = NoPort
    /\ \E p \in DOMAIN last.ret : Len(last.ret[p]) = 2

\* The least port from start to 65535 that is not used, NoPort if none.
LeastFreePort(start, used_ports) ==
    IF \E p \in start..65535 : p \notin used_ports
    THEN CHOOSE p \in start..65535 :
             p \notin used_ports /\ \A q \in start..(p - 1) : q \in used_ports
    ELSE NoPort

\* C23 as stated: the port suggested from the inventory's proxy ports and
\* the port suggested from the rules' backend ports are both the least
\* port from start to 65535 that is not used, and none when all are used.
C23_Original ==
    (last.op \in {"get_next_available_port", "suggest_next_port"}) =>
        last.ret = LeastFreePort(last.args.start, last.args.used_ports)

\* The comparison of the claim, stated on the ports themselves. A port
\* parses as an integer when it is a number, or a text that is, between
\* the whitespace around it, an optional sign and a numeral: decimal
\* digits, each underscore standing between two digits, and no more than
\* IntMaxStrDigits digits.
Reverse(s) == [i \in 1..Len(s) |-> s[Len(s) + 1 - i]]

\* The number of whitespace characters s begins with.
Margin(s) ==
    CHOOSE n \in 0..Len(s) :
        /\ \A j \in 1..n : s[j] \in WhitespaceChars
        /\ n < Len(s) => s[n + 1] \notin WhitespaceChars

Inked(s) == SubSeq(s, Margin(s) + 1, Len(s) - Margin(Reverse(s)))

Unsigned(t) ==
    IF t # <<>> /\ t[1] \in {PlusSign, MinusSign} THEN SubSeq(t, 2, Len(t)) ELSE t

IsNumeral(u) ==
    /\ u # <<>>
    /\ \A k \in 1..Len(u) :
          \/ IsDigit(u[k])
          \/ /\ u[k] = Underscore
             /\ 1 < k /\ k < Len(u)
             /\ IsDigit(u[k - 1]) /\ IsDigit(u[k + 1])
    /\ Len(SelectSeq(u, IsDigit)) <= IntMaxStrDigits

ParsesAsInteger(v) ==
    \/ v.type = "int"
    \/ v.type = "str" /\ \E u \in {Unsigned(Inked(v.s))} : IsNumeral(u)

\* The decimal digits of the integer a port parses as, the units first.
TenTo == <<1, 10, 100, 1000, 10000, 100000, 1000000, 10000000, 100000000, 1000000000>>

UnitsFirst(d) == [k \in 1..Len(d) |-> DigitValue(d[Len(d) + 1 - k])]

Numeral(v) ==
    IF v.type = "int"
    THEN [k \in 1..Len(TenTo) |-> ((IF v.n < 0 THEN -v.n ELSE v.n) \div TenTo[k]) % 10]
    ELSE UnitsFirst(SelectSeq(Unsigned(Inked(v.s)), IsDigit))

BelowZero(v) ==
    IF v.type = "int" THEN v.n < 0 ELSE Inked(v.s)[1] = MinusSign

\* Two ports that parse as integers are the same integer: the same digit
\* at every weight, and the same sign unless the integer is zero.
SameInteger(v, w) ==
    \E x \in {Numeral(v)}, y \in {Numeral(w)} :
        /\ \A k \in 1..(IF Len(x) > Len(y) THEN Len(x) ELSE Len(y)) :
              (IF k <= Len(x) THEN x[k] ELSE 0) = (IF k <= Len(y) THEN y[k] ELSE 0)
        /\ BelowZero(v) = BelowZero(w) \/ \A k \in 1..Len(x) : x[k] = 0

\* Two ports are the same string: the same text; no port is written
\* "None" when the other is absent; a number is not the same string as a
\* text that does not parse as an integer.
SameString(v, w) ==
    IF v.type = "str" /\ w.type = "str" THEN v.s = w.s
    ELSE IF v.type = "None" /\ w.type = "None" THEN TRUE
    ELSE IF v.type = "None" THEN w.type = "str" /\ w.s = <<78, 111, 110, 101>>
    ELSE IF w.type = "None" THEN v.type = "str" /\ v.s = <<78, 111, 110, 101>>
    ELSE FALSE

PortsEqual(stored, query) ==
    IF ParsesAsInteger(stored) /\ ParsesAsInteger(query)
    THEN SameInteger(stored, query)
    ELSE SameString(stored, query)

\* C24: domain_port_exists(domain, port) is TRUE exactly when some rule of
\* the rules list_rules() returned has that frontend domain and a frontend
\* port equal to port, as integers when both are numbers and as text
\* otherwise; a rule without frontend port matches nothing.
C24_DomainPortExists ==
    (last.op = "domain_port_exists") =>
        (last.ret <=>
            \E i \in 1..Len(last.rules) :
                /\ last.rules[i].frontend.fqdn = last.args.domain
                /\ last.rules[i].frontend.port # NoneVal
                /\ PortsEqual(last.rules[i].frontend.port, last.args.port))

C24_Witness ==
    /\ last.op = "domain_port_exists"
    /\ last.ret
    /\ last.args.port = IntVal(443)
    /\ Len(last.rules) = 2
    /\ last.rules[1].frontend.fqdn = last.args.domain
    /\ last.rules[1].frontend.port = IntVal(444)
    /\ last.rules[2].frontend.fqdn = last.args.domain
    /\ last.rules[2].frontend.port = StrVal(<<52, 52, 51>>)

\* C25: an add_rule the store answers with an error code fails, with the
\* reason of its code: 4154 gives the domain reason, 101 the parameter
\* format reason, any other code the raw code.
CreateRejected(l) ==
    /\ l.op = "add_rule"
    /\ l.calls # <<>>
    /\ l.calls[1].resp.kind = "error"

C25_ErrorClassified ==
    CreateRejected(last) =>
        /\ ~last.ok
        /\ LET code == last.calls[1].resp.code
           IN /\ (code = 4154) =>
                    last.msg = "Domain may already exist, be invalid, or not under your Synology account"
              /\ (code = 101) => last.msg = "Invalid parameter format"
              /\ (code \notin {4154, 101}) => last.msg = "Error code: " \o ToString(code)

C25_Witness ==
    /\ CreateRejected(last)
    /\ last.calls[1].resp.code = 4154
    /\ ~last.ok
    /\ last.msg = "Domain may already exist, be invalid, or not under your Synology account"

\* A list_rules(refresh=False) returns the rules the store holds.
ListingIsStore ==
    (last'.op = "list_rules" /\ ~last'.args.refresh) => last'.rules = store'

\* A cache that holds rules holds the rules the store holds.
CacheIsStore ==
    (~IsNone(rules_cache') /\ rules_cache'[1] # <<>>) => rules_cache'[1] = store'

\* C28 as stated: with the store changed by this manager's creates and
\* deletes only, list_rules(refresh=False) never returns a sequence that
\* differs from the store's rules, and whenever the cache holds rules they
\* are the store's rules.
C28_Original == [][ListingIsStore /\ CacheIsStore]_vars

\* C29: a create or delete the store does not accept leaves rules_cache as
\* it was, and rules_cache goes from a list to None only in a create or
\* delete the store accepted.
C29_CacheFrame ==
    [][/\ (last'.op \in MutationOps /\ ~StoreAccepted(last'))
           => rules_cache' = rules_cache
       /\ (~IsNone(rules_cache) /\ IsNone(rules_cache'))
           => /\ last'.op \in MutationOps
              /\ StoreAccepted(last')
              /\ last'.ok]_vars

C29_Witness ==
    /\ last.op \in MutationOps
    /\ last.calls # <<>>
    /\ ~StoreAccepted(last)
    /\ ~last.ok
    /\ ~IsNone(rules_cache)
    /\ rules_cache[1] # <<>>

\* C30: while the manager is not authenticated no operation calls the
\* store or changes rules_cache, list_rules returns the empty list whatever
\* refresh is, and add_rule, delete_rule and delete_rules_bulk (also with
\* an empty identifier list) fail with "Not authenticated".
C30_Unauthenticated ==
    [][~authenticated
       => /\ last'.calls = <<>>
          /\ rules_cache' = rules_cache
          /\ store' = store
          /\ (last'.op = "list_rules") => last'.rules = <<>>
          /\ (last'.op \in MutationOps)
              => /\ ~last'.ok
                 /\ last'.msg = "Not authenticated"]_vars

C30_Witness ==
    /\ ~authenticated
    /\ last.op = "delete_rules_bulk"
    /\ last.args.rule_uuids = <<>>
    /\ ~last.ok
    /\ last.msg = "Not authenticated"
    /\ last.calls = <<>>

\* C26: when several listed rules share a backend port, an in_sync entry of
\* that port carries the frontend domain of the last of them in listing
\* order, and no rule of that port has an entry in orphaned_proxies.
RulesWithPort(p) == {k \in RuleIdx : ActualRules[k].backend.port = p}

Max(S) == CHOOSE x \in S : \A y \in S : y <= x

C26_LastRuleWins ==
    IsReport =>
        \A e \in 1..Len(last.report.in_sync) :
            LET p == last.report.in_sync[e].port
                sharing == RulesWithPort(p)
            IN Cardinality(sharing) > 1 =>
                  /\ last.report.in_sync[e].domain
                         = ActualRules[Max(sharing)].frontend.fqdn
                  /\ \A k \in sharing :
                        \A o \in 1..Len(last.report.orphaned_proxies) :
                            /\ last.report.orphaned_proxies[o].id # ActualRules[k].id
                            /\ last.report.orphaned_proxies[o].port # p

\* An in_sync entry whose port two rules share, carrying the domain of the
\* second and not the different domain of the first.
C26_Witness ==
    /\ IsReport
    /\ Len(ActualRules) = 2
    /\ ActualRules[1].backend.port = ActualRules[2].backend.port
    /\ ActualRules[1].frontend.fqdn # ActualRules[2].frontend.fqdn
    /\ Len(last.report.in_sync) = 1
    /\ last.report.in_sync[1].port = ActualRules[2].backend.port
    /\ last.report.in_sync[1].domain = ActualRules[2].frontend.fqdn
    /\ last.report.orphaned_proxies = <<>>

\* C27: the report that follows an auto-create that made one create per
\* missing entry, all accepted by the store, and whose own listing
\* succeeded, has no missing entry and names each service the auto-create
\* was given in in_sync.
C27_AutoCreateConverges ==
    (ListingSucceeded /\ last.args.created # <<>>) =>
        /\ last.report.missing_proxies = <<>>
        /\ \A i \in 1..Len(last.args.created) :
              \E k \in 1..Len(last.report.in_sync) :
                  /\ last.report.in_sync[k].service = last.args.created[i].service
                  /\ last.report.in_sync[k].port = last.args.created[i].port

\* Two services were missing, both rules were created, and the next report
\* has both in sync.
C27_Witness ==
    /\ ListingSucceeded
    /\ Len(last.args.created) = 2
    /\ Len(store) = 2
    /\ last.report.missing_proxies = <<>>
    /\ Len(last.report.in_sync) = 2

====
